---------------------------- MODULE Spec2Model ----------------------------
(***************************************************************************)
(* Model of the query-safety and execution pipeline of data_agent:         *)
(* the validator and executor (bq.py run_query), the metadata service      *)
(* (list_tables, count_tables, table_row_counts), the orchestrator         *)
(* (nl2sql.py nl2sql_and_execute) and the standalone tool                  *)
(* (bq_tools.py query_bigquery).                                           *)
(*                                                                         *)
(* Texts are sequences of one-character strings, so that strip, lower,     *)
(* startswith and the substring test are computed character by character.  *)
(* A character the module syntax cannot hold inside a string (the          *)
(* backtick, non-ASCII characters) is written as its code point, for       *)
(* example "U+0060" for the backtick: it is still one element of the text. *)
(*                                                                         *)
(* A Python dict is a record whose DOMAIN is the set of keys present.      *)
(* Python None is the string "None" where a string is expected.            *)
(***************************************************************************)
EXTENDS Integers, Sequences, FiniteSets, TLC

VARIABLES
    scope,      \* config.py: BQ_PROJECT, BQ_DATASET, ALLOW_CROSS_DATASET
    pc,         \* position of the caller: "idle", inside an operation, "done"
    call,       \* the operation in progress and its arguments
    remote,     \* the warehouse collaborator's view: the jobs of this call, in order
    collab,     \* invocations of the generator and the sanitizer in this call
    ret,        \* how the operation ended: a returned dict or a raised exception
    attempts,   \* table_row_counts: the local list `attempts`
    lt,         \* table_row_counts: the listing result `lt`
    todo,       \* table_row_counts: rows of lt still to be visited by the for loop
    rows_out,   \* table_row_counts: the local list `rows_out`
    loc,        \* nl2sql_and_execute: locals schema_preview, generated, sanitized, dry
    active,     \* the caller whose call the variables above describe: 1 or 2
    other       \* the call of the other caller, suspended at a remote call

vars == <<scope, pc, call, remote, collab, ret, attempts, lt, todo, rows_out, loc,
          active, other>>

None == "None"

(***************************************************************************)
(* Bounds of the model.                                                    *)
(***************************************************************************)
\* longest row sequence the warehouse returns for a caller-supplied query
MaxRows == 3
\* longest table listing the warehouse returns
MaxTables == 2
\* largest caller-supplied maximum_rows
MaxCap == 2
\* largest max_tables and max_cols handed to get_tables_and_columns
MaxLimit == 2

(***************************************************************************)
(* Python str operations.                                                  *)
(***************************************************************************)
UpperLetters == <<"A", "B", "C", "D", "E", "F", "G", "H", "I", "J", "K", "L", "M", "N", "O", "P", "Q", "R", "S", "T", "U", "V", "W", "X", "Y", "Z">>

LowerLetters == <<"a", "b", "c", "d", "e", "f", "g", "h", "i", "j", "k", "l", "m", "n", "o", "p", "q", "r", "s", "t", "u", "v", "w", "x", "y", "z">>

\* str.lower on one character
LowerChar(c) ==
    IF \E i \in 1..Len(UpperLetters) : UpperLetters[i] = c
    THEN LowerLetters[CHOOSE i \in 1..Len(UpperLetters) : UpperLetters[i] = c]
    ELSE c

\* str.lower
lower(s) == [i \in 1..Len(s) |-> LowerChar(s[i])]

IsSpace(c) == c \in {" ", "\t", "\n"}

RECURSIVE lstrip(_)
lstrip(s) == IF s # <<>> /\ IsSpace(Head(s)) THEN lstrip(Tail(s)) ELSE s

RECURSIVE rstrip(_)
rstrip(s) ==
    IF s # <<>> /\ IsSpace(s[Len(s)]) THEN rstrip(SubSeq(s, 1, Len(s) - 1)) ELSE s

\* str.strip
strip(s) == rstrip(lstrip(s))

\* str.startswith
startswith(s, p) == Len(p) <= Len(s) /\ SubSeq(s, 1, Len(p)) = p

\* the substring test `p in s`
Contains(s, p) ==
    \E i \in 0..(Len(s) - Len(p)) : SubSeq(s, i + 1, i + Len(p)) = p

\* the index of the first occurrence of p in s (p occurs in s)
Find(s, p) ==
    CHOOSE i \in 1..(Len(s) - Len(p) + 1) :
        /\ SubSeq(s, i, i + Len(p) - 1) = p
        /\ \A j \in 1..(i - 1) : SubSeq(s, j, j + Len(p) - 1) # p

\* str.split(sep)
RECURSIVE split(_, _)
split(s, sep) ==
    IF ~Contains(s, sep) THEN <<s>>
    ELSE LET i == Find(s, sep)
         IN  <<SubSeq(s, 1, i - 1)>> \o split(SubSeq(s, i + Len(sep), Len(s)), sep)

\* str.replace(old, new), old non-empty
RECURSIVE replace(_, _, _)
replace(s, old, new) ==
    IF ~Contains(s, old) THEN s
    ELSE LET i == Find(s, old)
         IN  SubSeq(s, 1, i - 1) \o new \o replace(SubSeq(s, i + Len(old), Len(s)), old, new)

\* sep.join(parts)
RECURSIVE join(_, _)
join(sep, parts) ==
    IF parts = <<>> THEN <<>>
    ELSE IF Len(parts) = 1 THEN parts[1]
    ELSE parts[1] \o sep \o join(sep, Tail(parts))

\* str.splitlines
splitlines(s) ==
    IF s = <<>> THEN <<>>
    ELSE LET parts == split(s, <<"\n">>)
         IN  IF parts[Len(parts)] = <<>> THEN SubSeq(parts, 1, Len(parts) - 1) ELSE parts

(***************************************************************************)
(* QueryValidator: bq.py _ensure_select and _enforce_dataset.              *)
(* Each returns None in Python or raises ValueError; here each yields the  *)
(* exception it raises, or NoExc.                                          *)
(***************************************************************************)
NoExc == [type |-> None, kind |-> None, msg |-> None]

InvalidQueryShape ==
    [type |-> "ValueError", kind |-> "InvalidQueryShape",
     msg  |-> "Only read-only SELECT queries are allowed."]

\* the message is f"Query must reference dataset `{BQ_PROJECT}.{BQ_DATASET}`."
OutOfScope ==
    [type |-> "ValueError", kind |-> "OutOfScope",
     msg  |-> "Query must reference dataset BQ_PROJECT.BQ_DATASET."]

\* variant of ensure_select: "select" accepted anywhere in the text, not only at its start
ensure_select_anywhere(sql) ==
    LET lowered == lower(strip(sql))
    IN  IF ~Contains(lowered, <<"s", "e", "l", "e", "c", "t">>) THEN InvalidQueryShape ELSE NoExc

ensure_select(sql) ==
    LET lowered == lower(strip(sql))
    IN  IF ~startswith(lowered, <<"s", "e", "l", "e", "c", "t">>) THEN InvalidQueryShape ELSE NoExc

\* f"`{BQ_PROJECT}.{BQ_DATASET}."
hint_table(sc) == <<"U+0060">> \o sc.project \o <<".">> \o sc.dataset \o <<".">>

\* f"`{BQ_PROJECT.lower()}.{BQ_DATASET.lower()}`.information_schema"
hint_info_schema(sc) ==
    <<"U+0060">> \o lower(sc.project) \o <<".">> \o lower(sc.dataset) \o <<"U+0060", ".", "i", "n", "f", "o", "r", "m", "a", "t", "i", "o", "n", "_", "s", "c", "h", "e", "m", "a">>

\* f"`{BQ_PROJECT}.{BQ_DATASET}`."
hint_backtick_then_dot(sc) == <<"U+0060">> \o sc.project \o <<".">> \o sc.dataset \o <<"U+0060", ".">>

\* variant of enforce_dataset: the ALLOW_CROSS_DATASET early return is missing
enforce_dataset_always(sql, sc) ==
    LET lowered == lower(sql)
    IN  IF Contains(sql, hint_table(sc)) THEN NoExc
        ELSE IF Contains(lowered, hint_info_schema(sc)) THEN NoExc
        ELSE IF Contains(sql, hint_backtick_then_dot(sc)) THEN NoExc
        ELSE OutOfScope

enforce_dataset(sql, sc) ==
    IF sc.allow_cross_dataset THEN NoExc
    ELSE LET lowered == lower(sql)
         IN  IF Contains(sql, hint_table(sc)) THEN NoExc
             ELSE IF Contains(lowered, hint_info_schema(sc)) THEN NoExc
             ELSE IF Contains(sql, hint_backtick_then_dot(sc)) THEN NoExc
             ELSE OutOfScope

(***************************************************************************)
(* The warehouse collaborator.  A response says what the warehouse does    *)
(* with one job: client.query raises submit_error, or returns a job with   *)
(* total_bytes_processed and job_id; job.result() raises result_error, or  *)
(* yields the rows under the schema.                                       *)
(***************************************************************************)
Msgs == {"e1", "e2"}

ByteCounts == {0, 7}

Response(se, b, re, rs, sch) ==
    [submit_error |-> se, bytes |-> b, result_error |-> re, rows |-> rs,
     schema |-> sch, job_id |-> "job"]

Column(n, t) == [name |-> n, type |-> t, mode |-> "NULLABLE"]

\* the responses to a dry-run job
DryResponses ==
    {Response(m, 0, None, <<>>, <<>>) : m \in Msgs}
    \cup {Response(None, b, None, <<>>, <<>>) : b \in ByteCounts}

\* the responses to a real job whose successful results are the row sequences in rowsets
RealResponses(rowsets, sch) ==
    {Response(m, 0, None, <<>>, <<>>) : m \in Msgs}
    \cup {Response(None, 0, m, <<>>, <<>>) : m \in Msgs}
    \cup {Response(None, 0, None, rs, sch) : rs \in rowsets}

\* the same with one submission error and one execution error
LeanResponses(rowsets, sch) ==
    {Response("e1", 0, None, <<>>, <<>>), Response(None, 0, "e2", <<>>, <<>>)}
    \cup {Response(None, 0, None, rs, sch) : rs \in rowsets}

SeqsUpTo(S, n) == UNION {[1..k -> S] : k \in 0..n}

(***************************************************************************)
(* QueryExecutor: bq.py run_query.                                         *)
(***************************************************************************)
Raised(exc, events) == [raised |-> TRUE, exc |-> exc, remote |-> events]

Returned(value, events) == [raised |-> FALSE, value |-> value, remote |-> events]

\* variant of Take: the slice keeps one row too many
TakeOneMore(rows, n) == SubSeq(rows, 1, IF n + 1 < Len(rows) THEN n + 1 ELSE Len(rows))

\* rows[:maximum_rows]
Take(rows, n) == SubSeq(rows, 1, IF n < Len(rows) THEN n ELSE Len(rows))

\* [f.name for f in result.schema]
FieldNames(schema) == [i \in 1..Len(schema) |-> schema[i].name]

\* {k: row[k] for k in field_names}
RowDict(row, field_names) ==
    [k \in {field_names[i] : i \in 1..Len(field_names)} |-> row[k]]

\* variant of JobConfig: use_query_cache is left unset on a dry run
JobConfigCached(dry_run) ==
    IF dry_run THEN [dry_run |-> "True", use_query_cache |-> None]
    ELSE [dry_run |-> None, use_query_cache |-> None]

\* bigquery.QueryJobConfig() and the two assignments under `if dry_run`
JobConfig(dry_run) ==
    IF dry_run THEN [dry_run |-> "True", use_query_cache |-> "False"]
    ELSE [dry_run |-> None, use_query_cache |-> None]

\* one job as the warehouse sees it: the text and configuration submitted by
\* client.query, whether job.result() was called on it, and what the warehouse answered
Job(sql, dry_run, resp, fetched) ==
    [sql          |-> sql,
     job_config   |-> JobConfig(dry_run),
     submit_error |-> resp.submit_error,
     fetched      |-> fetched,
     result_error |-> IF fetched THEN resp.result_error ELSE None,
     rows         |-> IF fetched /\ resp.result_error = None THEN resp.rows ELSE <<>>]

\* rows[:maximum_rows] under `if maximum_rows and maximum_rows > 0`
Truncate(rows, maximum_rows) ==
    IF maximum_rows # 0 /\ maximum_rows > 0 THEN Take(rows, maximum_rows) ELSE rows

\* variant of submit_and_fetch: job.result() is outside the try, its error is raised
submit_and_fetch_result_unguarded(sql, maximum_rows, dry_run, resp) ==
    IF resp.submit_error # None
    THEN Returned([status |-> "error", error_message |-> resp.submit_error, sql |-> sql],
                  <<Job(sql, dry_run, resp, FALSE)>>)
    ELSE IF dry_run
    THEN Returned([status |-> "success", dry_run |-> TRUE,
                   total_bytes_processed |-> resp.bytes, sql |-> sql],
                  <<Job(sql, dry_run, resp, FALSE)>>)
    ELSE IF resp.result_error # None
    THEN Raised([type |-> "Exception", kind |-> "RemoteExecutionError",
                 msg |-> resp.result_error],
                <<Job(sql, dry_run, resp, TRUE)>>)
    ELSE LET field_names == FieldNames(resp.schema)
             all  == [i \in 1..Len(resp.rows) |-> RowDict(resp.rows[i], field_names)]
             rows == Truncate(all, maximum_rows)
         IN  Returned([status |-> "success", rows |-> rows, num_rows |-> Len(rows),
                       schema |-> resp.schema, job_id |-> resp.job_id, sql |-> sql],
                      <<Job(sql, dry_run, resp, TRUE)>>)

\* the try block of run_query, after validation
submit_and_fetch(sql, maximum_rows, dry_run, resp) ==
    IF resp.submit_error # None
    THEN Returned([status |-> "error", error_message |-> resp.submit_error, sql |-> sql],
                  <<Job(sql, dry_run, resp, FALSE)>>)
    ELSE IF dry_run
    THEN Returned([status |-> "success", dry_run |-> TRUE,
                   total_bytes_processed |-> resp.bytes, sql |-> sql],
                  <<Job(sql, dry_run, resp, FALSE)>>)
    ELSE IF resp.result_error # None
    THEN Returned([status |-> "error", error_message |-> resp.result_error, sql |-> sql],
                  <<Job(sql, dry_run, resp, TRUE)>>)
    ELSE LET field_names == FieldNames(resp.schema)
             all  == [i \in 1..Len(resp.rows) |-> RowDict(resp.rows[i], field_names)]
             rows == Truncate(all, maximum_rows)
         IN  Returned([status |-> "success", rows |-> rows, num_rows |-> Len(rows),
                       schema |-> resp.schema, job_id |-> resp.job_id, sql |-> sql],
                      <<Job(sql, dry_run, resp, TRUE)>>)

\* variant of run_query: a failed job is submitted a second time
run_query_retry(sql, maximum_rows, dry_run, resp, sc) ==
    IF ensure_select(sql) # NoExc THEN Raised(ensure_select(sql), <<>>)
    ELSE IF enforce_dataset(sql, sc) # NoExc THEN Raised(enforce_dataset(sql, sc), <<>>)
    ELSE LET first == submit_and_fetch(sql, maximum_rows, dry_run, resp)
         IN  IF first.value.status = "error"
             THEN Returned(first.value, first.remote \o first.remote)
             ELSE first

run_query(sql, maximum_rows, dry_run, resp, sc) ==
    IF ensure_select(sql) # NoExc THEN Raised(ensure_select(sql), <<>>)
    ELSE IF enforce_dataset(sql, sc) # NoExc THEN Raised(enforce_dataset(sql, sc), <<>>)
    ELSE submit_and_fetch(sql, maximum_rows, dry_run, resp)

(***************************************************************************)
(* The standalone tool: bq_tools.py query_bigquery.  Its whole body is     *)
(* inside one try, and it checks the shape of the text but not the scope.  *)
(***************************************************************************)
query_bigquery(sql, maximum_rows, resp) ==
    IF strip(sql) = <<>>
    THEN Returned([status |-> "error", error_message |-> "SQL must be a non-empty string."],
                  <<>>)
    ELSE IF ~startswith(lower(strip(sql)), <<"s", "e", "l", "e", "c", "t">>)
    THEN Returned([status |-> "error",
                   error_message |-> "Only read-only SELECT queries are allowed."], <<>>)
    ELSE IF resp.submit_error # None
    THEN Returned([status |-> "error", error_message |-> resp.submit_error],
                  <<Job(sql, FALSE, resp, FALSE)>>)
    ELSE IF resp.result_error # None
    THEN Returned([status |-> "error", error_message |-> resp.result_error],
                  <<Job(sql, FALSE, resp, TRUE)>>)
    ELSE LET field_names == FieldNames(resp.schema)
             all  == [i \in 1..Len(resp.rows) |-> RowDict(resp.rows[i], field_names)]
             rows == IF maximum_rows > 0 THEN Take(all, maximum_rows) ELSE all
         IN  Returned([status |-> "success", rows |-> rows, num_rows |-> Len(rows),
                       schema |-> resp.schema, job_id |-> resp.job_id],
                      <<Job(sql, FALSE, resp, TRUE)>>)

(***************************************************************************)
(* Python dict helpers.                                                    *)
(***************************************************************************)
HasKey(d, k) == k \in DOMAIN d

\* d.get(k) for a key holding a string: None when absent
GetStr(d, k) == IF HasKey(d, k) THEN d[k] ELSE None

\* d.get(k, default)
GetOr(d, k, default) == IF HasKey(d, k) THEN d[k] ELSE default

\* the truth value of d.get("rows"): present and non-empty
TruthyRows(d) == HasKey(d, "rows") /\ d.rows # <<>>

\* d[k] = v
SetKey(d, k, v) == [x \in {k} |-> v] @@ d

\* d.setdefault("debug", {})["intent"] = tag
TagIntent(d, tag) ==
    IF HasKey(d, "debug") THEN SetKey(d, "debug", SetKey(d.debug, "intent", tag))
    ELSE SetKey(d, "debug", [intent |-> tag])

(***************************************************************************)
(* MetadataService: bq.py list_tables, count_tables, table_row_counts.     *)
(***************************************************************************)
\* run_query's default maximum_rows
DefaultMaximumRows == 1000

\* variant of QuotedDataset: the dataset reference is written without backticks
QuotedDatasetBare(sc) == sc.project \o <<".">> \o sc.dataset

\* f"`{BQ_PROJECT}.{BQ_DATASET}`"
QuotedDataset(sc) == <<"U+0060">> \o sc.project \o <<".">> \o sc.dataset \o <<"U+0060">>

ListTablesSql(sc) ==
    <<"S", "E", "L", "E", "C", "T", " ", "t", "a", "b", "l", "e", "_", "n", "a", "m", "e", " ", "F", "R", "O", "M", " ">> \o QuotedDataset(sc)
    \o <<".", "I", "N", "F", "O", "R", "M", "A", "T", "I", "O", "N", "_", "S", "C", "H", "E", "M", "A", ".", "T", "A", "B", "L", "E", "S", " ", "O", "R", "D", "E", "R", " ", "B", "Y", " ", "t", "a", "b", "l", "e", "_", "n", "a", "m", "e">>

CountTablesSql(sc) ==
    <<"S", "E", "L", "E", "C", "T", " ", "C", "O", "U", "N", "T", "(", "*", ")", " ", "A", "S", " ", "t", "a", "b", "l", "e", "_", "c", "o", "u", "n", "t", " ", "F", "R", "O", "M", " ">> \o QuotedDataset(sc)
    \o <<".", "I", "N", "F", "O", "R", "M", "A", "T", "I", "O", "N", "_", "S", "C", "H", "E", "M", "A", ".", "T", "A", "B", "L", "E", "S">>

list_tables(resp, sc) == run_query(ListTablesSql(sc), DefaultMaximumRows, FALSE, resp, sc)

count_tables(resp, sc) == run_query(CountTablesSql(sc), DefaultMaximumRows, FALSE, resp, sc)

\* sql1 of table_row_counts
sql1(sc) ==
    <<"S", "E", "L", "E", "C", "T", " ", "t", "a", "b", "l", "e", "_", "n", "a", "m", "e", ",", " ", "r", "o", "w", "_", "c", "o", "u", "n", "t", " ", "F", "R", "O", "M", " ">> \o QuotedDataset(sc)
    \o <<".", "I", "N", "F", "O", "R", "M", "A", "T", "I", "O", "N", "_", "S", "C", "H", "E", "M", "A", ".", "T", "A", "B", "L", "E", "_", "S", "T", "O", "R", "A", "G", "E", " ">> \o <<"O", "R", "D", "E", "R", " ", "B", "Y", " ", "t", "a", "b", "l", "e", "_", "n", "a", "m", "e">>

\* sql2 of table_row_counts
sql2(sc) ==
    <<"S", "E", "L", "E", "C", "T", " ", "t", "a", "b", "l", "e", "_", "n", "a", "m", "e", ",", " ", "S", "U", "M", "(", "r", "o", "w", "_", "c", "o", "u", "n", "t", ")", " ", "A", "S", " ", "r", "o", "w", "_", "c", "o", "u", "n", "t", " ", "F", "R", "O", "M", " ">> \o QuotedDataset(sc)
    \o <<".", "I", "N", "F", "O", "R", "M", "A", "T", "I", "O", "N", "_", "S", "C", "H", "E", "M", "A", ".", "P", "A", "R", "T", "I", "T", "I", "O", "N", "S", " ">> \o <<"G", "R", "O", "U", "P", " ", "B", "Y", " ", "t", "a", "b", "l", "e", "_", "n", "a", "m", "e", " ", "O", "R", "D", "E", "R", " ", "B", "Y", " ", "t", "a", "b", "l", "e", "_", "n", "a", "m", "e">>

\* sql3 of table_row_counts, for table t
sql3(sc, t) ==
    <<"S", "E", "L", "E", "C", "T", " ", "C", "O", "U", "N", "T", "(", "*", ")", " ", "A", "S", " ", "r", "o", "w", "_", "c", "o", "u", "n", "t", " ", "F", "R", "O", "M", " ", "U+0060">> \o sc.project \o <<".">> \o sc.dataset
    \o <<".">> \o t \o <<"U+0060">>

\* variant of SqlAttempt: the error message is not recorded
SqlAttemptNoError(sql, res) ==
    [sql |-> sql, status |-> GetStr(res, "status"), error |-> None]

\* {"sql": sql, "status": res.get("status"), "error": res.get("error_message")}
SqlAttempt(sql, res) ==
    [sql |-> sql, status |-> GetStr(res, "status"), error |-> GetStr(res, "error_message")]

\* {"step": "list_tables", "status": lt.get("status"), "error": lt.get("error_message")}
StepAttempt(res) ==
    [step |-> "list_tables", status |-> GetStr(res, "status"),
     error |-> GetStr(res, "error_message")]

\* variant of Accepted: a successful result is accepted even when it has no rows
AcceptedOnStatus(res) == res.status = "success"

\* the acceptance test of strategies 1 and 2
Accepted(res) == res.status = "success" /\ TruthyRows(res)

\* what the warehouse may hold
TableNames == {<<"a">>, <<"b">>, <<>>}

StorageSchema == <<Column("table_name", "STRING"), Column("row_count", "INT64")>>

StorageRowSets ==
    { <<>>,
      <<[table_name |-> <<"a">>, row_count |-> 5], [table_name |-> <<"b">>, row_count |-> 0]>> }

ListSchema == <<Column("table_name", "STRING")>>

ListRowSets == SeqsUpTo({[table_name |-> n] : n \in TableNames}, MaxTables)

CountSchema == <<Column("row_count", "INT64")>>

CountRowSets == {<<>>, <<[row_count |-> 4]>>}

TableCountSchema == <<Column("table_count", "INT64")>>

TableCountRowSets == {<<[table_count |-> 0]>>, <<[table_count |-> 2]>>}

(***************************************************************************)
(* MetadataService: bq.py get_tables_and_columns and get_schema_summary.   *)
(* An insertion-ordered dict table -> columns is a sequence of             *)
(* [table, cols] entries in insertion order.                               *)
(***************************************************************************)
ColumnsSchema ==
    <<Column("table_name", "STRING"), Column("column_name", "STRING"),
      Column("data_type", "STRING"), Column("ordinal_position", "INT64")>>

SummarySchema ==
    <<Column("table_name", "STRING"), Column("column_name", "STRING"),
      Column("data_type", "STRING")>>

ColumnRow(t, c, ty, pos) ==
    [table_name |-> t, column_name |-> c, data_type |-> ty, ordinal_position |-> pos]

\* a dataset with more tables than the schema preview has lines: one per letter
ManyTableNames == <<"a", "b", "c", "d", "e", "f", "g", "h", "i", "j", "k", "l", "m", "n", "o", "p", "q", "r", "s", "t", "u", "v", "w", "x", "y", "z">>

ManyTablesRows ==
    [i \in 1..Len(ManyTableNames) |->
        ColumnRow(<<ManyTableNames[i]>>, <<"x">>, <<"I", "N", "T", "6", "4">>, 1)]

ColumnRowSets ==
    { <<>>,
      <<ColumnRow(<<"a">>, <<"x">>, <<"I", "N", "T", "6", "4">>, 1)>>,
      <<ColumnRow(<<"a">>, <<"x">>, <<"I", "N", "T", "6", "4">>, 1), ColumnRow(<<"a">>, <<"y">>, <<"S", "T", "R", "I", "N", "G">>, 2),
        ColumnRow(<<"b">>, <<"x">>, <<"I", "N", "T", "6", "4">>, 1)>>,
      ManyTablesRows }

\* the rows of INFORMATION_SCHEMA.COLUMNS for tables a (x, y, z) and b (x, y),
\* in the order of ORDER BY table_name, ordinal_position
AllColumnRows ==
    <<ColumnRow(<<"a">>, <<"x">>, <<"I", "N", "T", "6", "4">>, 1), ColumnRow(<<"a">>, <<"y">>, <<"S", "T", "R", "I", "N", "G">>, 2),
      ColumnRow(<<"a">>, <<"z">>, <<"F", "L", "O", "A", "T", "6", "4">>, 3), ColumnRow(<<"b">>, <<"x">>, <<"I", "N", "T", "6", "4">>, 1),
      ColumnRow(<<"b">>, <<"y">>, <<"S", "T", "R", "I", "N", "G">>, 2)>>

\* the elements of seq at the positions in idx, in their order in seq
RECURSIVE PickRows(_, _, _)
PickRows(seq, idx, i) ==
    IF i > Len(seq) THEN <<>>
    ELSE (IF i \in idx THEN <<seq[i]>> ELSE <<>>) \o PickRows(seq, idx, i + 1)

\* what the query can return when some of those columns exist: any ordered selection
OrderedColumnRowSets ==
    {PickRows(AllColumnRows, idx, 1) : idx \in SUBSET (1..Len(AllColumnRows))}

\* limits a caller passes as max_tables / max_cols
Limits == 1..MaxLimit

TablesAndColumnsSql(sc) ==
    <<"\n", " ", " ", " ", " ", "S", "E", "L", "E", "C", "T", " ", "t", "a", "b", "l", "e", "_", "n", "a", "m", "e", ",", " ", "c", "o", "l", "u", "m", "n", "_", "n", "a", "m", "e", ",", " ", "d", "a", "t", "a", "_", "t", "y", "p", "e", ",", " ", "o", "r", "d", "i", "n", "a", "l", "_", "p", "o", "s", "i", "t", "i", "o", "n", "\n", " ", " ", " ", " ", "F", "R", "O", "M", " ">>
    \o QuotedDataset(sc)
    \o <<".", "I", "N", "F", "O", "R", "M", "A", "T", "I", "O", "N", "_", "S", "C", "H", "E", "M", "A", ".", "C", "O", "L", "U", "M", "N", "S", "\n", " ", " ", " ", " ", "O", "R", "D", "E", "R", " ", "B", "Y", " ", "t", "a", "b", "l", "e", "_", "n", "a", "m", "e", ",", " ", "o", "r", "d", "i", "n", "a", "l", "_", "p", "o", "s", "i", "t", "i", "o", "n", "\n", " ", " ", " ", " ">>

SchemaSummarySql(sc) ==
    <<"\n", " ", " ", " ", " ", "S", "E", "L", "E", "C", "T", " ", "t", "a", "b", "l", "e", "_", "n", "a", "m", "e", ",", " ", "c", "o", "l", "u", "m", "n", "_", "n", "a", "m", "e", ",", " ", "d", "a", "t", "a", "_", "t", "y", "p", "e", "\n", " ", " ", " ", " ", "F", "R", "O", "M", " ">>
    \o QuotedDataset(sc)
    \o <<".", "I", "N", "F", "O", "R", "M", "A", "T", "I", "O", "N", "_", "S", "C", "H", "E", "M", "A", ".", "C", "O", "L", "U", "M", "N", "S", "\n", " ", " ", " ", " ", "O", "R", "D", "E", "R", " ", "B", "Y", " ", "t", "a", "b", "l", "e", "_", "n", "a", "m", "e", ",", " ", "o", "r", "d", "i", "n", "a", "l", "_", "p", "o", "s", "i", "t", "i", "o", "n", "\n", " ", " ", " ", " ">>

\* `t in out`
HasTable(out, t) == \E i \in 1..Len(out) : out[i].table = t

\* out.setdefault(t, [])
SetDefaultTable(out, t) ==
    IF HasTable(out, t) THEN out ELSE Append(out, [table |-> t, cols |-> <<>>])

\* out[t].append(c)
AppendCol(out, t, c) ==
    [i \in 1..Len(out) |->
        IF out[i].table = t THEN [out[i] EXCEPT !.cols = Append(@, c)] ELSE out[i]]

ColsOf(out, t) == out[CHOOSE i \in 1..Len(out) : out[i].table = t].cols

\* the for loop of get_tables_and_columns
RECURSIVE tables_and_columns_loop(_, _, _, _)
tables_and_columns_loop(rows, out, max_tables, max_cols) ==
    IF rows = <<>> THEN out
    ELSE LET r    == Head(rows)
             t    == r.table_name
             out1 == SetDefaultTable(out, t)
             out2 == IF Len(ColsOf(out1, t)) < max_cols
                     THEN AppendCol(out1, t,
                              [column_name |-> r.column_name, data_type |-> r.data_type])
                     ELSE out1
         IN  IF Len(out2) >= max_tables /\ ~HasTable(out2, t) THEN out2
             ELSE tables_and_columns_loop(Tail(rows), out2, max_tables, max_cols)

\* get_tables_and_columns after its run_query returned res
get_tables_and_columns(res, max_tables, max_cols) ==
    IF res.status # "success" THEN <<>>
    ELSE tables_and_columns_loop(GetOr(res, "rows", <<>>), <<>>, max_tables, max_cols)

\* the defaults of get_tables_and_columns
DefaultMaxTables == 200

DefaultMaxCols == 60

\* the defaults of get_schema_summary
SummaryMaxTables == 25

SummaryMaxColumns == 30

\* the aggregation loop of get_schema_summary, cols rendered as f"{column_name}:{data_type}"
RECURSIVE summary_group(_, _)
summary_group(rows, out) ==
    IF rows = <<>> THEN out
    ELSE LET r == Head(rows)
         IN  summary_group(Tail(rows),
                 AppendCol(SetDefaultTable(out, r.table_name), r.table_name,
                           r.column_name \o <<":">> \o r.data_type))

\* the rendering loop of get_schema_summary
RECURSIVE summary_parts(_, _, _, _)
summary_parts(entries, idx, max_tables, max_columns_per_table) ==
    IF entries = <<>> THEN <<>>
    ELSE IF idx >= max_tables THEN <<<<".", ".", ".">>>>
    ELSE LET e    == Head(entries)
             cols == IF Len(e.cols) > max_columns_per_table
                     THEN SubSeq(e.cols, 1, max_columns_per_table) \o <<<<".", ".", ".">>>>
                     ELSE e.cols
         IN  <<e.table \o <<" ", "-", ">", " ">> \o join(<<",", " ">>, cols)>>
             \o summary_parts(Tail(entries), idx + 1, max_tables, max_columns_per_table)

\* get_schema_summary after its run_query returned res
get_schema_summary(res, max_tables, max_columns_per_table) ==
    IF res.status # "success" THEN <<>>
    ELSE join(<<"\n">>,
              summary_parts(summary_group(GetOr(res, "rows", <<>>), <<>>), 0,
                            max_tables, max_columns_per_table))

(***************************************************************************)
(* QueryOrchestrator: nl2sql.py.                                           *)
(***************************************************************************)
\* the schema text built from toc in nl2sql_and_execute
SchemaText(toc) ==
    join(<<"\n">>,
         [i \in 1..Len(toc) |->
            toc[i].table \o <<" ", "-", ">", " ">>
            \o join(<<",", " ">>,
                    [j \in 1..Len(toc[i].cols) |->
                        toc[i].cols[j].column_name \o <<":">> \o toc[i].cols[j].data_type])])

\* the slice [:25] of schema.splitlines()
PreviewLines == 25

\* "\n".join(schema.splitlines()[:25])
SchemaPreview(schema) == join(<<"\n">>, Take(splitlines(schema), PreviewLines))

\* the fallback text of _generate_sql_with_model
PlaceholderSql(sc) ==
    <<"S", "E", "L", "E", "C", "T", " ", "*", " ", "F", "R", "O", "M", " ", "U+0060">> \o sc.project \o <<".">> \o sc.dataset \o <<".", "Y", "O", "U", "R", "_", "T", "A", "B", "L", "E", "U+0060", " ", "L", "I", "M", "I", "T", " ", "5", "0">>

\* the first part p with "select" in p.lower(), stripped; text itself when there is none
RECURSIVE FirstSelectPart(_, _)
FirstSelectPart(parts, text) ==
    IF parts = <<>> THEN text
    ELSE IF Contains(lower(Head(parts)), <<"s", "e", "l", "e", "c", "t">>) THEN strip(Head(parts))
    ELSE FirstSelectPart(Tail(parts), text)

\* _generate_sql_with_model after the generator answered: reply is its text,
\* or NoReply when the generator is absent or raised
NoReply == <<"<no reply>">>

generate_sql_with_model(reply, sc) ==
    LET text == IF reply = NoReply THEN PlaceholderSql(sc) ELSE reply
        sql  == IF Contains(text, <<"U+0060", "U+0060", "U+0060">>)
                THEN FirstSelectPart(split(text, <<"U+0060", "U+0060", "U+0060">>), text)
                ELSE text
    IN  strip(sql)

NotSelect ==
    [type |-> "ValueError", kind |-> "SanitizeFailure",
     msg  |-> "Generated SQL must be a SELECT query."]

\* the message is
\* f"SQL must reference `{BQ_PROJECT}.{BQ_DATASET}` with fully-qualified table names."
Unqualified ==
    [type |-> "ValueError", kind |-> "SanitizeFailure",
     msg  |-> "SQL must reference BQ_PROJECT.BQ_DATASET with fully-qualified table names."]

\* variant of must: the prefix is built from the lower-cased names
must_lowered(sc) == <<"U+0060">> \o lower(sc.project) \o <<".">> \o lower(sc.dataset) \o <<".">>

\* must = f"`{BQ_PROJECT}.{BQ_DATASET}."
must(sc) == <<"U+0060">> \o sc.project \o <<".">> \o sc.dataset \o <<".">>

\* the two replace calls of one iteration over `replacements`
ReplaceKey(s, key, key_upper, val) == replace(replace(s, key, val), key_upper, val)

\* variant of sanitize_sql: the rewriting is not guarded by `if must not in sql`
sanitize_sql_always_rewrite(sql, sc) ==
    LET lowered  == lower(strip(sql))
        from_val == <<" ", "F", "R", "O", "M", " ">> \o must(sc)
        join_val == <<" ", "J", "O", "I", "N", " ">> \o must(sc)
        sql_work == ReplaceKey(ReplaceKey(sql, <<" ", "f", "r", "o", "m", " ">>, <<" ", "F", "R", "O", "M", " ">>, from_val),
                               <<" ", "j", "o", "i", "n", " ">>, <<" ", "J", "O", "I", "N", " ">>, join_val)
    IN  IF ~startswith(lowered, <<"s", "e", "l", "e", "c", "t">>) THEN [exc |-> NotSelect, sql |-> sql]
        ELSE IF ~Contains(sql_work, must(sc)) THEN [exc |-> Unqualified, sql |-> sql]
        ELSE [exc |-> NoExc, sql |-> sql_work]

\* _sanitize_sql: the exception it raises (NoExc when it returns) and the text it returns
sanitize_sql(sql, sc) ==
    LET lowered  == lower(strip(sql))
        from_val == <<" ", "F", "R", "O", "M", " ">> \o must(sc)
        join_val == <<" ", "J", "O", "I", "N", " ">> \o must(sc)
        sql_work == ReplaceKey(ReplaceKey(sql, <<" ", "f", "r", "o", "m", " ">>, <<" ", "F", "R", "O", "M", " ">>, from_val),
                               <<" ", "j", "o", "i", "n", " ">>, <<" ", "J", "O", "I", "N", " ">>, join_val)
    IN  IF ~startswith(lowered, <<"s", "e", "l", "e", "c", "t">>) THEN [exc |-> NotSelect, sql |-> sql]
        ELSE IF Contains(sql, must(sc)) THEN [exc |-> NoExc, sql |-> sql]
        ELSE IF ~Contains(sql_work, must(sc)) THEN [exc |-> Unqualified, sql |-> sql]
        ELSE [exc |-> NoExc, sql |-> sql_work]

\* f"SQL sanitize failed: {exc}"
SanitizeFailedMsg(exc) ==
    IF exc = NotSelect THEN "SQL sanitize failed: Generated SQL must be a SELECT query."
    ELSE "SQL sanitize failed: SQL must reference BQ_PROJECT.BQ_DATASET with fully-qualified table names."

CountKeywords == {<<"h", "o", "w", " ", "m", "a", "n", "y", " ", "t", "a", "b", "l", "e", "s">>, <<"c", "o", "u", "n", "t", " ", "t", "a", "b", "l", "e", "s">>, <<"U+591A", "U+5C11", "U+8868">>, <<"U+6709", "U+591A", "U+5C11", "U+8868">>}

ListKeywords == {<<"l", "i", "s", "t", " ", "t", "a", "b", "l", "e", "s">>, <<"t", "a", "b", "l", "e", "s", " ", "l", "i", "s", "t">>, <<"U+6709", "U+54EA", "U+4E9B", "U+8868">>, <<"U+5217", "U+51FA", "U+8868">>}

PerTableKeywords == {<<"e", "a", "c", "h", " ", "t", "a", "b", "l", "e">>, <<"p", "e", "r", " ", "t", "a", "b", "l", "e">>, <<"U+6BCF", "U+5F20", "U+8868">>, <<"U+6BCF", "U+4E2A", "U+8868">>}

\* any(k in q for k in keywords)
AnyIn(keywords, q) == \E k \in keywords : Contains(q, k)

\* variant of Intent: the list keywords are tested before the count keywords
IntentListFirst(question) ==
    LET q == lower(strip(question))
    IN  IF AnyIn(ListKeywords, q) THEN "list_tables"
        ELSE IF AnyIn(CountKeywords, q) THEN "count_tables"
        ELSE IF AnyIn(PerTableKeywords, q) THEN "table_row_counts"
        ELSE "nl2sql"

\* the intent nl2sql_and_execute picks for a non-empty question
Intent(question) ==
    LET q == lower(strip(question))
    IN  IF AnyIn(CountKeywords, q) THEN "count_tables"
        ELSE IF AnyIn(ListKeywords, q) THEN "list_tables"
        ELSE IF AnyIn(PerTableKeywords, q) THEN "table_row_counts"
        ELSE "nl2sql"

(***************************************************************************)
(* Inputs of answer: questions, row caps, generator replies.               *)
(***************************************************************************)
Questions ==
    { <<>>,
      <<" ", " ", " ">>,
      <<"H", "o", "w", " ", "M", "a", "n", "y", " ", "T", "a", "b", "l", "e", "s", " ", "a", "r", "e", " ", "t", "h", "e", "r", "e">>,
      <<"l", "i", "s", "t", " ", "t", "a", "b", "l", "e", "s", ",", " ", "h", "o", "w", " ", "m", "a", "n", "y", " ", "t", "a", "b", "l", "e", "s">>,
      <<"c", "o", "u", "n", "t", " ", "t", "a", "b", "l", "e", "s", " ", "p", "e", "r", " ", "t", "a", "b", "l", "e">>,
      <<"U+6709", "U+591A", "U+5C11", "U+8868">>,
      <<" ", "L", "i", "s", "t", " ", "T", "a", "b", "l", "e", "s", " ">>,
      <<"t", "a", "b", "l", "e", "s", " ", "l", "i", "s", "t", " ", "f", "o", "r", " ", "e", "a", "c", "h", " ", "t", "a", "b", "l", "e">>,
      <<"U+5217", "U+51FA", "U+8868">>,
      <<"r", "o", "w", "s", " ", "p", "e", "r", " ", "t", "a", "b", "l", "e">>,
      <<"U+6BCF", "U+5F20", "U+8868", "U+6709", "U+591A", "U+5C11", "U+884C">>,
      <<"t", "o", "t", "a", "l", " ", "s", "a", "l", "e", "s", " ", "b", "y", " ", "d", "a", "y">> }

\* nl2sql_and_execute's default maximum_rows
DefaultAnswerRows == 100

AnswerCaps == {1, DefaultAnswerRows}

Replies ==
    { NoReply,
      <<"S", "E", "L", "E", "C", "T", " ", "*", " ", "F", "R", "O", "M", " ", "o", "r", "d", "e", "r", "s", " ", "L", "I", "M", "I", "T", " ", "1", "0">>,
      <<"s", "e", "l", "e", "c", "t", " ", "*", " ", "f", "r", "o", "m", " ", "o", "r", "d", "e", "r", "s">>,
      <<"s", "e", "l", "e", "c", "t", " ", "a", " ", "F", "r", "o", "m", " ", "t">>,
      <<"I", " ", "c", "a", "n", "n", "o", "t", " ", "a", "n", "s", "w", "e", "r", " ", "t", "h", "a", "t">>,
      <<"U+0060", "U+0060", "U+0060", "s", "q", "l", "\n", "S", "E", "L", "E", "C", "T", " ", "*", " ", "F", "R", "O", "M", " ", "U+0060", "p", ".", "d", ".", "t", "U+0060", "\n", "U+0060", "U+0060", "U+0060">>,
      <<"U+0060", "U+0060", "U+0060", "\n", "s", "e", "l", "e", "c", "t", " ", "1", " ", "f", "r", "o", "m", " ", "U+0060", "p", ".", "D", ".", "t", "U+0060", " ", "j", "o", "i", "n", " ", "u", "\n", "U+0060", "U+0060", "U+0060">>,
      <<"P", "l", "e", "a", "s", "e", " ", "s", "e", "l", "e", "c", "t", ":", " ", "U+0060", "U+0060", "U+0060", "s", "e", "l", "e", "c", "t", " ", "1", " ", "f", "r", "o", "m", " ", "x", "U+0060", "U+0060", "U+0060">> }

(***************************************************************************)
(* Inputs of execute: query texts, row caps, warehouse rows.               *)
(***************************************************************************)
QueryTexts ==
    { <<>>,
      <<" ", " ">>,
      <<"d", "e", "l", "e", "t", "e", " ", "f", "r", "o", "m", " ", "t">>,
      <<"\n", " ", "S", "E", "L", "E", "C", "T", " ", "1">>,
      <<"s", "e", "l", "e", "c", "t", "i", "o", "n">>,
      <<"s", "e", "l", "e", "c", "t", " ", "*", " ", "f", "r", "o", "m", " ", "p", ".", "d", ".", "t">>,
      <<"s", "e", "l", "e", "c", "t", " ", "*", " ", "f", "r", "o", "m", " ", "U+0060", "p", ".", "d", ".", "t", "U+0060">>,
      <<"S", "e", "l", "e", "c", "t", " ", "*", " ", "f", "r", "o", "m", " ", "U+0060", "p", ".", "D", ".", "t", "U+0060">>,
      <<"S", "E", "L", "E", "C", "T", " ", "1", " ", "F", "R", "O", "M", " ", "U+0060", "P", ".", "D", "U+0060", ".", "I", "N", "F", "O", "R", "M", "A", "T", "I", "O", "N", "_", "S", "C", "H", "E", "M", "A", ".", "T", "A", "B", "L", "E", "S">>,
      <<"s", "e", "l", "e", "c", "t", " ", "1", " ", "f", "r", "o", "m", " ", "U+0060", "p", ".", "d", "U+0060", ".", "x">>,
      <<"s", "e", "l", "e", "c", "t", " ", "1", " ", "f", "r", "o", "m", " ", "U+0060", "p", ".", "D", "U+0060", ".", "x">>,
      <<"w", "i", "t", "h", " ", "x", " ", "a", "s", " ", "(", "s", "e", "l", "e", "c", "t", " ", "1", ")", " ", "s", "e", "l", "e", "c", "t", " ", "*", " ", "f", "r", "o", "m", " ", "U+0060", "p", ".", "d", ".", "t", "U+0060">> }

Caps == -1..MaxCap

UserSchema == <<Column("id", "INT64")>>

UserRows == {[id |-> 1], [id |-> 2]}

UserRowSets == SeqsUpTo(UserRows, MaxRows)

(***************************************************************************)
(* The state machine.                                                      *)
(***************************************************************************)
(***************************************************************************)
(* AnalysisSandbox: nl2py.py _safe_exec_python.  What exec does with a     *)
(* code text is the interpreter's business; exec_code gives, for the code  *)
(* texts below, the exception exec raises (NoExc when the code completes)  *)
(* and the names the code binds in locals_dict besides df.                 *)
(***************************************************************************)
Completed(bound) == [exc |-> NoExc, locals |-> bound]

Threw(type, msg) ==
    [exc |-> [type |-> type, kind |-> "SandboxExecutionError", msg |-> msg],
     locals |-> <<>>]

\* {'num_rows': len(df), 'columns': list(df.columns)}: the default of run_python_analysis
DefaultCode ==
    <<"#", " ", "D", "e", "f", "a", "u", "l", "t", " ", "a", "n", "a", "l", "y", "s", "i", "s", ":", " ", "b", "a", "s", "i", "c", " ", "c", "o", "l", "u", "m", "n", " ", "o", "v", "e", "r", "v", "i", "e", "w", "\n", "r", "e", "s", "u", "l", "t", " ", "=", " ", "{", "'", "n", "u", "m", "_", "r", "o", "w", "s", "'", ":", " ", "l", "e", "n", "(", "d", "f", ")", ",", " ", "'", "c", "o", "l", "u", "m", "n", "s", "'", ":", " ", "l", "i", "s", "t", "(", "d", "f", ".", "c", "o", "l", "u", "m", "n", "s", ")", "}", "\n">>

\* reaches SystemExit through the subclasses of object, no builtin name needed
EscapeCode ==
    <<"B", " ", "=", " ", "[", "c", " ", "f", "o", "r", " ", "c", " ", "i", "n", " ", "(", ")", ".", "_", "_", "c", "l", "a", "s", "s", "_", "_", ".", "_", "_", "b", "a", "s", "e", "_", "_", ".", "_", "_", "s", "u", "b", "c", "l", "a", "s", "s", "e", "s", "_", "_", "(", ")", " ", "i", "f", " ", "c", ".", "_", "_", "n", "a", "m", "e", "_", "_", " ", "=", "=", " ", "'", "B", "a", "s", "e", "E", "x", "c", "e", "p", "t", "i", "o", "n", "'", "]", "[", "0", "]", "\n", "S", " ", "=", " ", "[", "c", " ", "f", "o", "r", " ", "c", " ", "i", "n", " ", "B", ".", "_", "_", "s", "u", "b", "c", "l", "a", "s", "s", "e", "s", "_", "_", "(", ")", " ", "i", "f", " ", "c", ".", "_", "_", "n", "a", "m", "e", "_", "_", " ", "=", "=", " ", "'", "S", "y", "s", "t", "e", "m", "E", "x", "i", "t", "'", "]", "[", "0", "]", "\n", "r", "a", "i", "s", "e", " ", "S", "(", "'", "b", "y", "e", "'", ")">>

Codes ==
    { <<"r", "e", "s", "u", "l", "t", " ", "=", " ", "l", "e", "n", "(", "d", "f", ")">>, <<"x", " ", "=", " ", "1">>, <<"f", "i", "g", "u", "r", "e", "_", "p", "a", "t", "h", " ", "=", " ", "'", "p", "l", "o", "t", ".", "p", "n", "g", "'">>, <<>>,
      <<"r", "e", "s", "u", "l", "t", " ", "=", " ", "1", " ", "/", " ", "0">>, <<"r", "e", "s", "u", "l", "t", " ", "=", " ", "u", "n", "d", "e", "f", "i", "n", "e", "d", "_", "n", "a", "m", "e">>, <<"r", "e", "s", "u", "l", "t", " ", "=", " ", "(">>,
      DefaultCode, EscapeCode,
      <<"p", "y", "t", "h", "o", "n", "\n", "r", "e", "s", "u", "l", "t", " ", "=", " ", "l", "e", "n", "(", "d", "f", ")">>, <<"U", "s", "e", " ", "d", "f", " ", "l", "i", "k", "e", " ", "t", "h", "i", "s", ":">> }

\* exec(code, globals_dict, locals_dict) with df = pd.DataFrame(data) and the builtins
\* len, range, min, max, sum
exec_code(code, data) ==
    CASE code = <<"r", "e", "s", "u", "l", "t", " ", "=", " ", "l", "e", "n", "(", "d", "f", ")">>         -> Completed([result |-> [int |-> Len(data)]])
      [] code = <<"x", " ", "=", " ", "1">>                    -> Completed([x |-> [int |-> 1]])
      [] code = <<"f", "i", "g", "u", "r", "e", "_", "p", "a", "t", "h", " ", "=", " ", "'", "p", "l", "o", "t", ".", "p", "n", "g", "'">> -> Completed([figure_path |-> "plot.png"])
      [] code = <<>>                          -> Completed(<<>>)
      [] code = <<"r", "e", "s", "u", "l", "t", " ", "=", " ", "1", " ", "/", " ", "0">>           -> Threw("ZeroDivisionError", "division by zero")
      [] code = <<"r", "e", "s", "u", "l", "t", " ", "=", " ", "u", "n", "d", "e", "f", "i", "n", "e", "d", "_", "n", "a", "m", "e">>
           -> Threw("NameError", "name 'undefined_name' is not defined")
      [] code = <<"r", "e", "s", "u", "l", "t", " ", "=", " ", "(">>
           -> Threw("SyntaxError", "'(' was never closed (<string>, line 1)")
      [] code = DefaultCode                   -> Threw("NameError", "name 'list' is not defined")
      [] code = EscapeCode                    -> Threw("SystemExit", "bye")
      [] code = <<"p", "y", "t", "h", "o", "n", "\n", "r", "e", "s", "u", "l", "t", " ", "=", " ", "l", "e", "n", "(", "d", "f", ")">>
           -> Threw("NameError", "name 'python' is not defined")
      [] code = <<"U", "s", "e", " ", "d", "f", " ", "l", "i", "k", "e", " ", "t", "h", "i", "s", ":">>
           -> Threw("SyntaxError", "invalid syntax (<string>, line 1)")

\* the classes `except Exception` does not catch
NotAnException == {"SystemExit", "KeyboardInterrupt", "GeneratorExit"}

\* issubclass(type, Exception)
IsException(type) == type \notin NotAnException

\* what `import pandas as pd` does: None, or the message of the ImportError
ImportOutcomes == {None, "No module named 'pandas'"}

\* f"pandas missing: {exc}"
PandasMissingMsg(import_error) == <<"pandas missing: ", import_error>>

\* _safe_exec_python; out is what exec did, None when exec was not reached
safe_exec_python(code, data, import_error) ==
    IF import_error # None
    THEN Returned([status |-> "error", error_message |-> PandasMissingMsg(import_error)],
                  <<>>)
    ELSE LET out == exec_code(code, data)
         IN  IF out.exc = NoExc
             THEN Returned([status      |-> "success",
                            result      |-> GetOr(out.locals, "result", None),
                            figure_path |-> GetOr(out.locals, "figure_path", None)],
                           <<[ev |-> "exec", code |-> code, out |-> out]>>)
             ELSE IF IsException(out.exc.type)
             THEN Returned([status |-> "error", error_message |-> out.exc.msg],
                           <<[ev |-> "exec", code |-> code, out |-> out]>>)
             ELSE Raised(out.exc, <<[ev |-> "exec", code |-> code, out |-> out]>>)

NoCall == [name |-> "none"]

NoRet == [kind |-> "none"]

NoLt == [status |-> None]

NoLoc == [stage |-> "none"]

\* everything a call in progress owns; nothing of it is module-level state
Frame ==
    [pc |-> pc, call |-> call, remote |-> remote, collab |-> collab, ret |-> ret,
     attempts |-> attempts, lt |-> lt, todo |-> todo, rows_out |-> rows_out, loc |-> loc]

IdleFrame ==
    [pc |-> "idle", call |-> NoCall, remote |-> <<>>, collab |-> <<>>, ret |-> NoRet,
     attempts |-> <<>>, lt |-> NoLt, todo |-> <<>>, rows_out |-> <<>>, loc |-> NoLoc]

Projects == {<<"p">>}

Datasets == {<<"d">>, <<"D">>}

Init ==
    /\ scope \in [project : Projects, dataset : Datasets, allow_cross_dataset : BOOLEAN]
    /\ pc = "idle"
    /\ call = NoCall
    /\ remote = <<>>
    /\ collab = <<>>
    /\ ret = NoRet
    /\ attempts = <<>>
    /\ lt = NoLt
    /\ todo = <<>>
    /\ rows_out = <<>>
    /\ loc = NoLoc
    /\ active = 1
    /\ other = IdleFrame

\* the outcome of a call that was a single run_query
Outcome(r) ==
    IF r.raised THEN [kind |-> "raise", exc |-> r.exc]
    ELSE [kind |-> "return", value |-> r.value]

\* execute: one call of run_query with the caller's text, cap and dry_run flag
ExecuteOf(texts, caps, flags) ==
    /\ pc = "idle"
    /\ \E sql \in texts, k \in caps, dry \in flags :
         \E resp \in IF dry THEN DryResponses ELSE RealResponses(UserRowSets, UserSchema) :
            LET r == run_query(sql, k, dry, resp, scope)
            IN  /\ call' = [name |-> "execute", sql |-> sql, maximum_rows |-> k,
                            dry_run |-> dry, resp |-> resp]
                /\ remote' = r.remote
                /\ ret' = Outcome(r)
    /\ pc' = "done"
    /\ UNCHANGED <<active, other, scope, collab, attempts, lt, todo, rows_out, loc>>

Execute == ExecuteOf(QueryTexts, Caps, BOOLEAN)

\* the standalone tool: one call of query_bigquery
QueryBigquery ==
    /\ pc = "idle"
    /\ \E sql \in QueryTexts, k \in Caps :
         \E resp \in RealResponses(UserRowSets, UserSchema) :
            LET r == query_bigquery(sql, k, resp)
            IN  /\ call' = [name |-> "query_bigquery", sql |-> sql, maximum_rows |-> k,
                            dry_run |-> FALSE, resp |-> resp]
                /\ remote' = r.remote
                /\ ret' = Outcome(r)
    /\ pc' = "done"
    /\ UNCHANGED <<active, other, scope, collab, attempts, lt, todo, rows_out, loc>>

\* what the caller of the operation in progress receives when its body returns value
\* (nl2sql_and_execute tags the result of table_row_counts with the intent)
Deliver(value) ==
    IF call.name = "answer"
    THEN [kind |-> "return", value |-> TagIntent(value, "table_row_counts")]
    ELSE [kind |-> "return", value |-> value]

\* an exception leaves table_row_counts (and nl2sql_and_execute) uncaught
Propagate(r) ==
    /\ pc' = "done"
    /\ remote' = remote \o r.remote
    /\ ret' = [kind |-> "raise", exc |-> r.exc]
    /\ UNCHANGED <<active, other, scope, call, collab, attempts, lt, todo, rows_out, loc>>

\* rowCounts is called: attempts = []
RowCounts ==
    /\ pc = "idle"
    /\ pc' = "rc1"
    /\ call' = [name |-> "rowCounts"]
    /\ attempts' = <<>>
    /\ UNCHANGED <<active, other, scope, remote, collab, ret, lt, todo, rows_out, loc>>

\* attempt 1: INFORMATION_SCHEMA.TABLE_STORAGE
RowCountsStorage ==
    /\ pc = "rc1"
    /\ \E resp \in LeanResponses(StorageRowSets, StorageSchema) :
         LET r == run_query(sql1(scope), DefaultMaximumRows, FALSE, resp, scope)
         IN  IF r.raised THEN Propagate(r)
             ELSE LET res1 == r.value
                      att  == Append(attempts, SqlAttempt(sql1(scope), res1))
                  IN  /\ remote' = remote \o r.remote
                      /\ attempts' = att
                      /\ IF Accepted(res1)
                         THEN /\ ret' = Deliver(SetKey(res1, "debug", [attempts |-> att]))
                              /\ pc' = "done"
                         ELSE /\ ret' = ret
                              /\ pc' = "rc2"
                      /\ UNCHANGED <<active, other, scope, call, collab, lt, todo, rows_out, loc>>

\* attempt 2: INFORMATION_SCHEMA.PARTITIONS
RowCountsPartitions ==
    /\ pc = "rc2"
    /\ \E resp \in LeanResponses(StorageRowSets, StorageSchema) :
         LET r == run_query(sql2(scope), DefaultMaximumRows, FALSE, resp, scope)
         IN  IF r.raised THEN Propagate(r)
             ELSE LET res2 == r.value
                      att  == Append(attempts, SqlAttempt(sql2(scope), res2))
                  IN  /\ remote' = remote \o r.remote
                      /\ attempts' = att
                      /\ IF Accepted(res2)
                         THEN /\ ret' = Deliver(SetKey(res2, "debug", [attempts |-> att]))
                              /\ pc' = "done"
                         ELSE /\ ret' = ret
                              /\ pc' = "rc3"
                      /\ UNCHANGED <<active, other, scope, call, collab, lt, todo, rows_out, loc>>

\* variant of ListFailure: the error of the first attempt is reported
ListFailureFirstError(res, att) ==
    [status |-> "error",
     error_message |-> att[1].error,
     debug |-> [attempts |-> att]]

\* the return of table_row_counts when the listing is not usable
ListFailure(res, att) ==
    [status |-> "error",
     error_message |-> GetOr(res, "error_message", "Failed to list tables"),
     debug |-> [attempts |-> att]]

\* variant of ListingUnusable: only the status of the listing is tested
ListingUnusableOnStatus(res) == res.status # "success"

\* lt.get("status") != "success" or not lt.get("rows")
ListingUnusable(res) == res.status # "success" \/ ~TruthyRows(res)

\* attempt 3, first half: list_tables
RowCountsList ==
    /\ pc = "rc3"
    /\ \E resp \in RealResponses(ListRowSets, ListSchema) :
         LET r == list_tables(resp, scope)
         IN  IF r.raised THEN Propagate(r)
             ELSE LET res == r.value
                      att == Append(attempts, StepAttempt(res))
                  IN  /\ remote' = remote \o r.remote
                      /\ attempts' = att
                      /\ lt' = res
                      /\ IF ListingUnusable(res)
                         THEN /\ ret' = Deliver(ListFailure(res, att))
                              /\ pc' = "done"
                              /\ todo' = todo
                         ELSE /\ ret' = ret
                              /\ pc' = "rc_loop"
                              /\ todo' = GetOr(res, "rows", <<>>)
                      /\ UNCHANGED <<active, other, scope, call, collab, rows_out, loc>>

\* variant of RowCountsResult: an empty row list is reported as a failure
RowCountsResultErrorWhenEmpty(out, att) ==
    IF out = <<>>
    THEN [status |-> "error", error_message |-> "No table could be counted",
          debug |-> [attempts |-> att]]
    ELSE [status |-> "success", rows |-> out, num_rows |-> Len(out),
          debug |-> [attempts |-> att]]

\* the return after the for loop
RowCountsResult(out, att) ==
    [status |-> "success", rows |-> out, num_rows |-> Len(out), debug |-> [attempts |-> att]]

\* variant of RowCountsSkip: a row without a name sends the loop back to the listing
RowCountsSkipRelists ==
    /\ pc = "rc_loop"
    /\ todo # <<>>
    /\ LET t == GetOr(Head(todo), "table_name", <<>>)
       IN  /\ t = <<>>
           /\ todo' = <<>>
           /\ ret' = ret
           /\ pc' = "rc3"
    /\ UNCHANGED <<active, other, scope, call, remote, collab, attempts, lt, rows_out, loc>>

\* one iteration of the for loop on a row without a table name: continue
RowCountsSkip ==
    /\ pc = "rc_loop"
    /\ todo # <<>>
    /\ LET t == GetOr(Head(todo), "table_name", <<>>)
       IN  /\ t = <<>>
           /\ todo' = Tail(todo)
           /\ IF Tail(todo) = <<>>
              THEN /\ ret' = Deliver(RowCountsResult(rows_out, attempts))
                   /\ pc' = "done"
              ELSE /\ ret' = ret
                   /\ pc' = pc
    /\ UNCHANGED <<active, other, scope, call, remote, collab, attempts, lt, rows_out, loc>>

\* one iteration of the for loop: COUNT(*) of one table
RowCountsCount ==
    /\ pc = "rc_loop"
    /\ todo # <<>>
    /\ LET t == GetOr(Head(todo), "table_name", <<>>)
       IN  /\ t # <<>>
           /\ \E resp \in LeanResponses(CountRowSets, CountSchema) :
                LET r == run_query(sql3(scope, t), DefaultMaximumRows, FALSE, resp, scope)
                IN  IF r.raised THEN Propagate(r)
                    ELSE LET r3  == r.value
                             att == Append(attempts, SqlAttempt(sql3(scope, t), r3))
                             out == IF r3.status = "success" /\ TruthyRows(r3)
                                    THEN Append(rows_out,
                                                [table_name |-> t,
                                                 row_count |-> r3.rows[1].row_count])
                                    ELSE rows_out
                         IN  /\ remote' = remote \o r.remote
                             /\ attempts' = att
                             /\ rows_out' = out
                             /\ todo' = Tail(todo)
                             /\ IF Tail(todo) = <<>>
                                THEN /\ ret' = Deliver(RowCountsResult(out, att))
                                     /\ pc' = "done"
                                ELSE /\ ret' = ret
                                     /\ pc' = pc
                             /\ UNCHANGED <<active, other, scope, call, collab, lt, loc>>

\* answer on an empty question: rejected before any classification
AnswerEmpty ==
    /\ pc = "idle"
    /\ \E k \in AnswerCaps :
         call' = [name |-> "answer", question |-> <<>>, maximum_rows |-> k]
    /\ ret' = [kind |-> "return",
               value |-> [status |-> "error",
                          error_message |-> "question must be a non-empty string"]]
    /\ pc' = "done"
    /\ UNCHANGED <<active, other, scope, remote, collab, attempts, lt, todo, rows_out, loc>>

\* the end of a shortcut that is a single run_query: tag and return, or propagate
Shortcut(r, tag) ==
    /\ remote' = r.remote
    /\ ret' = IF r.raised THEN [kind |-> "raise", exc |-> r.exc]
              ELSE [kind |-> "return", value |-> TagIntent(r.value, tag)]
    /\ pc' = "done"
    /\ UNCHANGED <<active, other, scope, collab, attempts, lt, todo, rows_out, loc>>

\* answer, count shortcut: count_tables()
AnswerCountTables ==
    /\ pc = "idle"
    /\ \E question \in Questions \ {<<>>}, k \in AnswerCaps :
         /\ Intent(question) = "count_tables"
         /\ call' = [name |-> "answer", question |-> question, maximum_rows |-> k]
         /\ \E resp \in LeanResponses(TableCountRowSets, TableCountSchema) :
              Shortcut(count_tables(resp, scope), "count_tables")

\* answer, list shortcut: list_tables()
AnswerListTables ==
    /\ pc = "idle"
    /\ \E question \in Questions \ {<<>>}, k \in AnswerCaps :
         /\ Intent(question) = "list_tables"
         /\ call' = [name |-> "answer", question |-> question, maximum_rows |-> k]
         /\ \E resp \in RealResponses(ListRowSets, ListSchema) :
              Shortcut(list_tables(resp, scope), "list_tables")

\* answer, per-table shortcut: table_row_counts() is entered
AnswerRowCounts ==
    /\ pc = "idle"
    /\ \E question \in Questions \ {<<>>}, k \in AnswerCaps :
         /\ Intent(question) = "table_row_counts"
         /\ call' = [name |-> "answer", question |-> question, maximum_rows |-> k]
    /\ pc' = "rc1"
    /\ attempts' = <<>>
    /\ UNCHANGED <<active, other, scope, remote, collab, ret, lt, todo, rows_out, loc>>

\* answer, ad-hoc path: the schema context (get_tables_and_columns, and
\* get_schema_summary when that raises)
AnswerSchemaOf(questions, caps) ==
    /\ pc = "idle"
    /\ \E question \in questions, k \in caps :
         /\ Intent(question) = "nl2sql"
         /\ call' = [name |-> "answer", question |-> question, maximum_rows |-> k]
    /\ \E resp \in LeanResponses(ColumnRowSets, ColumnsSchema),
          resp2 \in LeanResponses({<<>>}, SummarySchema) :
         LET r  == run_query(TablesAndColumnsSql(scope), DefaultMaximumRows, FALSE, resp, scope)
             r2 == run_query(SchemaSummarySql(scope), DefaultMaximumRows, FALSE, resp2, scope)
         IN  IF ~r.raised
             THEN LET schema == SchemaText(get_tables_and_columns(
                                    r.value, DefaultMaxTables, DefaultMaxCols))
                  IN  /\ remote' = r.remote
                      /\ loc' = [schema |-> schema, schema_preview |-> SchemaPreview(schema)]
                      /\ pc' = "generate"
                      /\ ret' = ret
             ELSE IF ~r2.raised
             THEN LET schema == get_schema_summary(
                                    r2.value, SummaryMaxTables, SummaryMaxColumns)
                  IN  /\ remote' = r.remote \o r2.remote
                      /\ loc' = [schema |-> schema, schema_preview |-> SchemaPreview(schema)]
                      /\ pc' = "generate"
                      /\ ret' = ret
             ELSE /\ remote' = r.remote \o r2.remote
                  /\ loc' = loc
                  /\ pc' = "done"
                  /\ ret' = [kind |-> "raise", exc |-> r2.exc]
    /\ UNCHANGED <<active, other, scope, collab, attempts, lt, todo, rows_out>>

AnswerSchema == AnswerSchemaOf(Questions \ {<<>>}, AnswerCaps)

\* the debug context of the two early error returns
\* variant of PartialDebug: the schema preview is left out
PartialDebugNoPreview == [intent |-> "nl2sql"]

PartialDebug == [intent |-> "nl2sql", schema_preview |-> loc.schema_preview]

\* answer, ad-hoc path: the generator is asked, its reply is extracted and sanitized
AnswerGenerate ==
    /\ pc = "generate"
    /\ \E reply \in Replies :
         LET generated == generate_sql_with_model(reply, scope)
             san       == sanitize_sql(generated, scope)
         IN  /\ collab' = collab
                    \o <<[ev |-> "generate", question |-> call.question,
                          schema |-> loc.schema, reply |-> reply],
                         [ev |-> "sanitize", sql |-> generated]>>
             /\ IF san.exc # NoExc
                THEN /\ ret' = [kind |-> "return",
                                value |-> [status |-> "error",
                                           error_message |-> SanitizeFailedMsg(san.exc),
                                           sql |-> generated,
                                           debug |-> PartialDebug]]
                     /\ pc' = "done"
                     /\ loc' = [generated |-> generated] @@ loc
                ELSE /\ ret' = ret
                     /\ pc' = "dry"
                     /\ loc' = [generated |-> generated, sanitized |-> san.sql] @@ loc
    /\ UNCHANGED <<active, other, scope, call, remote, attempts, lt, todo, rows_out>>

\* variant of DryFailed: a dry run that estimates zero bytes is taken for a failure
DryFailedOnZeroBytes(dry) ==
    \/ dry.status # "success"
    \/ dry.total_bytes_processed = 0

\* dry.get("status") != "success"
DryFailed(dry) == dry.status # "success"

\* answer, ad-hoc path: dry = run_query(sanitized, dry_run=True)
AnswerDryRun ==
    /\ pc = "dry"
    /\ \E resp \in DryResponses :
         LET r == run_query(loc.sanitized, DefaultMaximumRows, TRUE, resp, scope)
         IN  IF r.raised THEN Propagate(r)
             ELSE /\ remote' = remote \o r.remote
                  /\ loc' = [dry |-> r.value] @@ loc
                  /\ IF DryFailed(r.value)
                     THEN /\ ret' = [kind |-> "return",
                                     value |-> [status |-> "error",
                                                error_message |->
                                                    GetStr(r.value, "error_message"),
                                                sql |-> loc.sanitized,
                                                debug |-> PartialDebug]]
                          /\ pc' = "done"
                     ELSE /\ ret' = ret
                          /\ pc' = "exec"
                  /\ UNCHANGED <<active, other, scope, call, collab, attempts, lt, todo, rows_out>>

\* variant of FullDebug: the byte estimate of the dry run is not recorded
FullDebugNoBytes(exec_res) ==
    LET bundle == [intent |-> "nl2sql",
                   schema_preview |-> loc.schema_preview,
                   generated_sql |-> loc.generated,
                   sanitized_sql |-> loc.sanitized]
    IN  IF HasKey(exec_res, "debug") THEN bundle @@ exec_res.debug ELSE bundle

\* exec_res.setdefault("debug", {}); exec_res["debug"].update({...})
FullDebug(exec_res) ==
    LET bundle == [intent |-> "nl2sql",
                   schema_preview |-> loc.schema_preview,
                   generated_sql |-> loc.generated,
                   sanitized_sql |-> loc.sanitized,
                   dry_run_bytes |-> loc.dry.total_bytes_processed]
    IN  IF HasKey(exec_res, "debug") THEN bundle @@ exec_res.debug ELSE bundle

\* answer, ad-hoc path: exec_res = run_query(sanitized, maximum_rows=maximum_rows)
AnswerExecute ==
    /\ pc = "exec"
    /\ \E resp \in RealResponses(UserRowSets, UserSchema) :
         LET r == run_query(loc.sanitized, call.maximum_rows, FALSE, resp, scope)
         IN  IF r.raised THEN Propagate(r)
             ELSE /\ remote' = remote \o r.remote
                  /\ ret' = [kind |-> "return",
                             value |-> SetKey(r.value, "debug", FullDebug(r.value))]
                  /\ pc' = "done"
                  /\ UNCHANGED <<active, other, scope, call, collab, attempts, lt, todo, rows_out, loc>>

\* get_tables_and_columns called with explicit limits
TablesAndColumns ==
    /\ pc = "idle"
    /\ \E max_tables \in Limits, max_cols \in Limits :
         /\ call' = [name |-> "tables_and_columns",
                     max_tables |-> max_tables, max_cols |-> max_cols]
         /\ \E resp \in LeanResponses(OrderedColumnRowSets, ColumnsSchema) :
              LET r == run_query(TablesAndColumnsSql(scope), DefaultMaximumRows,
                                 FALSE, resp, scope)
              IN  /\ remote' = r.remote
                  /\ ret' = IF r.raised THEN Outcome(r)
                            ELSE [kind  |-> "return",
                                  value |-> get_tables_and_columns(
                                                r.value, max_tables, max_cols)]
    /\ pc' = "done"
    /\ UNCHANGED <<active, other, scope, collab, attempts, lt, todo, rows_out, loc>>

\* AnalysisSandbox.run: _safe_exec_python called with a code text and sample rows
SafeExec ==
    /\ pc = "idle"
    /\ \E code \in Codes, data \in UserRowSets, import_error \in ImportOutcomes :
         LET r == safe_exec_python(code, data, import_error)
         IN  /\ call' = [name |-> "safe_exec", code |-> code, data |-> data,
                         import_error |-> import_error]
             /\ collab' = r.remote
             /\ ret' = Outcome(r)
    /\ pc' = "done"
    /\ UNCHANGED <<active, other, scope, remote, attempts, lt, todo, rows_out, loc>>

(***************************************************************************)
(* nl2py.py run_python_analysis.                                           *)
(***************************************************************************)
\* the query that picks a table when the caller named none
MetaSql(sc) ==
    <<"S", "E", "L", "E", "C", "T", " ", "t", "a", "b", "l", "e", "_", "n", "a", "m", "e", " ", "F", "R", "O", "M", " ">> \o QuotedDataset(sc)
    \o <<".", "I", "N", "F", "O", "R", "M", "A", "T", "I", "O", "N", "_", "S", "C", "H", "E", "M", "A", ".", "T", "A", "B", "L", "E", "S", " ", "O", "R", "D", "E", "R", " ", "B", "Y", " ", "t", "a", "b", "l", "e", "_", "n", "a", "m", "e", " ", "L", "I", "M", "I", "T", " ", "1">>

\* f"SELECT * FROM `{BQ_PROJECT}.{BQ_DATASET}.{target_table}` LIMIT {int(limit)}" with
\* the default limit, 200
SampleSql(sc, target_table) ==
    <<"S", "E", "L", "E", "C", "T", " ", "*", " ", "F", "R", "O", "M", " ", "U+0060">> \o sc.project \o <<".">> \o sc.dataset \o <<".">> \o target_table
    \o <<"U+0060", " ", "L", "I", "M", "I", "T", " ", "2", "0", "0">>

\* the first part with "import" or "df" in it, stripped; text itself when there is none
RECURSIVE FirstCodePart(_, _)
FirstCodePart(parts, text) ==
    IF parts = <<>> THEN text
    ELSE IF Contains(Head(parts), <<"i", "m", "p", "o", "r", "t">>) \/ Contains(Head(parts), <<"d", "f">>)
    THEN strip(Head(parts))
    ELSE FirstCodePart(Tail(parts), text)

\* variant of generate_code: no default analysis, the code is empty without a generator
generate_code_no_fallback(reply) ==
    IF reply = NoReply THEN <<>>
    ELSE IF Contains(reply, <<"U+0060", "U+0060", "U+0060">>) THEN FirstCodePart(split(reply, <<"U+0060", "U+0060", "U+0060">>), reply)
    ELSE reply

\* the try block of run_python_analysis: reply is the generator's text, or NoReply when
\* the generator is absent or raised
generate_code(reply) ==
    IF reply = NoReply THEN DefaultCode
    ELSE IF Contains(reply, <<"U+0060", "U+0060", "U+0060">>) THEN FirstCodePart(split(reply, <<"U+0060", "U+0060", "U+0060">>), reply)
    ELSE reply

\* what the generator is made to say about the analysis
CodeReplies ==
    { NoReply,
      <<"r", "e", "s", "u", "l", "t", " ", "=", " ", "l", "e", "n", "(", "d", "f", ")">>,
      <<"U+0060", "U+0060", "U+0060", "p", "y", "t", "h", "o", "n", "\n", "r", "e", "s", "u", "l", "t", " ", "=", " ", "l", "e", "n", "(", "d", "f", ")", "\n", "U+0060", "U+0060", "U+0060">>,
      <<"U", "s", "e", " ", "d", "f", " ", "l", "i", "k", "e", " ", "t", "h", "i", "s", ":", " ", "U+0060", "U+0060", "U+0060", "x", " ", "=", " ", "1", "U+0060", "U+0060", "U+0060">> }

\* the caller names a table or leaves table=None
NoTable == [given |-> FALSE]

AnalysisTables == {NoTable, [given |-> TRUE, name |-> <<"a">>]}

AnalysisQuestions == {<<>>, <<"h", "o", "w", " ", "m", "a", "n", "y", " ", "r", "o", "w", "s">>}

\* LIMIT 1: the warehouse answers with at most one row
MetaRowSets == SeqsUpTo({[table_name |-> n] : n \in TableNames}, 1)

\* run_python_analysis is called: the question is checked and the table is settled
AnalysisStart ==
    /\ pc = "idle"
    /\ \E question \in AnalysisQuestions, table \in AnalysisTables :
         /\ call' = [name |-> "analysis", question |-> question, table |-> table]
         /\ IF question = <<>>
            THEN /\ ret' = [kind |-> "return",
                            value |-> [status |-> "error",
                                       error_message |->
                                           "question must be a non-empty string"]]
                 /\ pc' = "done"
                 /\ loc' = loc
            ELSE IF ~table.given
            THEN /\ ret' = ret
                 /\ pc' = "an_meta"
                 /\ loc' = loc
            ELSE /\ ret' = ret
                 /\ pc' = "an_sample"
                 /\ loc' = [target_table |-> table.name]
    /\ UNCHANGED <<active, other, scope, remote, collab, attempts, lt, todo, rows_out>>

\* meta = run_query(...INFORMATION_SCHEMA.TABLES ... LIMIT 1)
AnalysisMeta ==
    /\ pc = "an_meta"
    /\ \E resp \in LeanResponses(MetaRowSets, ListSchema) :
         LET r == run_query(MetaSql(scope), DefaultMaximumRows, FALSE, resp, scope)
         IN  IF r.raised THEN Propagate(r)
             ELSE /\ remote' = remote \o r.remote
                  /\ IF r.value.status # "success" \/ ~TruthyRows(r.value)
                     THEN /\ ret' = [kind |-> "return",
                                     value |-> [status |-> "error",
                                                error_message |->
                                                    "Cannot determine a table to sample."]]
                          /\ pc' = "done"
                          /\ loc' = loc
                     ELSE /\ ret' = ret
                          /\ pc' = "an_sample"
                          /\ loc' = [target_table |-> r.value.rows[1].table_name]
                  /\ UNCHANGED <<active, other, scope, call, collab, attempts, lt, todo,
                                 rows_out>>

\* sample = run_query(SELECT * FROM the table LIMIT 200); a failed sample is returned as is
AnalysisSample ==
    /\ pc = "an_sample"
    /\ \E resp \in LeanResponses(UserRowSets, UserSchema) :
         LET r == run_query(SampleSql(scope, loc.target_table), DefaultMaximumRows, FALSE,
                            resp, scope)
         IN  IF r.raised THEN Propagate(r)
             ELSE /\ remote' = remote \o r.remote
                  /\ IF r.value.status # "success"
                     THEN /\ ret' = [kind |-> "return", value |-> r.value]
                          /\ pc' = "done"
                          /\ loc' = loc
                     ELSE /\ ret' = ret
                          /\ pc' = "an_generate"
                          /\ loc' = [sample |-> r.value] @@ loc
                  /\ UNCHANGED <<active, other, scope, call, collab, attempts, lt, todo,
                                 rows_out>>

\* the generator is asked for code and _safe_exec_python runs what came of it on the
\* sample's rows
AnalysisGenerate ==
    /\ pc = "an_generate"
    /\ \E reply \in CodeReplies, import_error \in ImportOutcomes :
         LET code == generate_code(reply)
             data == GetOr(loc.sample, "rows", <<>>)
             r    == safe_exec_python(code, data, import_error)
         IN  /\ collab' = collab
                    \o <<[ev |-> "generate", question |-> call.question, reply |-> reply],
                         [ev |-> "sandbox", code |-> code, data |-> data]>>
                    \o r.remote
             /\ ret' = Outcome(r)
    /\ pc' = "done"
    /\ UNCHANGED <<active, other, scope, call, remote, attempts, lt, todo, rows_out, loc>>

AnalysisSteps ==
    \/ AnalysisMeta
    \/ AnalysisSample
    \/ AnalysisGenerate

\* variant of Switch: `attempts` is one module-level list, shared by the two callers
SwitchSharedAttempts ==
    /\ active' = 3 - active
    /\ other' = Frame
    /\ pc' = other.pc
    /\ call' = other.call
    /\ remote' = other.remote
    /\ collab' = other.collab
    /\ ret' = other.ret
    /\ attempts' = attempts
    /\ lt' = other.lt
    /\ todo' = other.todo
    /\ rows_out' = other.rows_out
    /\ loc' = other.loc
    /\ UNCHANGED scope

\* the running caller is suspended between two steps and the other caller runs on:
\* every local of the suspended call is kept aside, only the configuration is common
Switch ==
    /\ active' = 3 - active
    /\ other' = Frame
    /\ pc' = other.pc
    /\ call' = other.call
    /\ remote' = other.remote
    /\ collab' = other.collab
    /\ ret' = other.ret
    /\ attempts' = other.attempts
    /\ lt' = other.lt
    /\ todo' = other.todo
    /\ rows_out' = other.rows_out
    /\ loc' = other.loc
    /\ UNCHANGED scope

\* the caller takes the result; the next call starts with fresh per-call state
Finish ==
    /\ pc = "done"
    /\ pc' = "idle"
    /\ call' = NoCall
    /\ remote' = <<>>
    /\ collab' = <<>>
    /\ ret' = NoRet
    /\ attempts' = <<>>
    /\ lt' = NoLt
    /\ todo' = <<>>
    /\ rows_out' = <<>>
    /\ loc' = NoLoc
    /\ UNCHANGED <<active, other, scope>>

RowCountsSteps ==
    \/ RowCountsStorage
    \/ RowCountsPartitions
    \/ RowCountsList
    \/ RowCountsSkip
    \/ RowCountsCount

AnswerSteps ==
    \/ AnswerEmpty
    \/ AnswerCountTables
    \/ AnswerListTables
    \/ AnswerRowCounts
    \/ AnswerSchema
    \/ AnswerGenerate
    \/ AnswerDryRun
    \/ AnswerExecute

Next ==
    \/ Execute
    \/ QueryBigquery
    \/ RowCounts
    \/ RowCountsSteps
    \/ AnswerSteps
    \/ TablesAndColumns
    \/ SafeExec
    \/ AnalysisStart
    \/ AnalysisSteps
    \/ Finish

Spec == Init /\ [][Next]_vars

(***************************************************************************)
(* Finish resets every per-call variable, so the states of Spec are the    *)
(* states of the specifications below taken together: each one is Spec     *)
(* with the caller restricted to some of the operations.                   *)
(***************************************************************************)
NextExecute ==
    \/ Execute
    \/ QueryBigquery
    \/ Finish

SpecExecute == Init /\ [][NextExecute]_vars

NextRowCounts ==
    \/ RowCounts
    \/ AnswerRowCounts
    \/ RowCountsSteps
    \/ Finish

SpecRowCounts == Init /\ [][NextRowCounts]_vars

NextAnswer ==
    \/ AnswerSteps
    \/ RowCountsSteps
    \/ Finish

SpecAnswer == Init /\ [][NextAnswer]_vars

NextMetadata ==
    \/ TablesAndColumns
    \/ Finish

SpecMetadata == Init /\ [][NextMetadata]_vars

NextSandbox ==
    \/ SafeExec
    \/ Finish

SpecSandbox == Init /\ [][NextSandbox]_vars

\* a call of answer or rowCounts is between its first and its last statement
Running == pc \notin {"idle", "done"}

\* the statements a call can be at
Positions ==
    {"idle", "done", "rc1", "rc2", "rc3", "rc_loop", "generate", "dry", "exec",
     "an_meta", "an_sample", "an_generate"}

\* where the call in progress is: its statement and, in the for loop of
\* table_row_counts, the listed rows still to visit
Position == <<pc, todo>>

\* the call in progress executes its next statement, which takes it to another
\* Position.  (Every statement of a running call has a next one; run_query blocks on
\* client.query and job.result, which are taken to complete or to raise.)
Advance ==
    /\ Running
    /\ pc' \in Positions
    /\ todo' \in ListRowSets

NextLive ==
    \/ RowCounts
    \/ AnswerSteps
    \/ RowCountsSteps
    \/ Finish

SpecLive == Init /\ [][NextLive]_vars /\ WF_Position(Advance)

\* the two operations that ask the generator: the ad-hoc path of answer, and the analysis
NextGenerated ==
    \/ AnswerSchema
    \/ AnswerGenerate
    \/ AnswerDryRun
    \/ AnswerExecute
    \/ AnalysisStart
    \/ AnalysisSteps
    \/ Finish

SpecGenerated == Init /\ [][NextGenerated]_vars

(***************************************************************************)
(* Two callers.  Python gives every call its own locals, so the call of    *)
(* the caller that is not running sits in `other` untouched; Switch hands  *)
(* the processor over between any two steps.  To keep the product of the   *)
(* two calls small, the callers and the warehouse choose among fewer       *)
(* inputs here: Narrow says which.                                         *)
(***************************************************************************)
NarrowTexts == {<<"s", "e", "l", "e", "c", "t", " ", "*", " ", "f", "r", "o", "m", " ", "U+0060", "p", ".", "d", ".", "t", "U+0060">>, <<"d", "e", "l", "e", "t", "e", " ", "f", "r", "o", "m", " ", "t">>}

NarrowQuestions == {<<"t", "o", "t", "a", "l", " ", "s", "a", "l", "e", "s", " ", "b", "y", " ", "d", "a", "y">>}

NarrowGenerated == {<<"S", "E", "L", "E", "C", "T", " ", "*", " ", "F", "R", "O", "M", " ", "o", "r", "d", "e", "r", "s", " ", "L", "I", "M", "I", "T", " ", "1", "0">>, <<"s", "e", "l", "e", "c", "t", " ", "a", " ", "F", "r", "o", "m", " ", "t">>}

Narrow ==
    /\ "generated" \in DOMAIN loc => loc.generated \in NarrowGenerated
    /\ \A i \in 1..Len(remote) :
         /\ remote[i].submit_error # "e2"
         /\ remote[i].result_error = None
         /\ remote[i].sql \notin {sql1(scope), sql2(scope)} => Len(remote[i].rows) <= 1
         /\ remote[i].sql = TablesAndColumnsSql(scope)
              => remote[i].submit_error = None /\ remote[i].rows = <<>>

InitConcurrent ==
    /\ Init
    /\ scope = [project |-> <<"p">>, dataset |-> <<"d">>, allow_cross_dataset |-> FALSE]

NextConcurrent ==
    \/ ExecuteOf(NarrowTexts, {1}, {FALSE}) /\ Narrow'
    \/ RowCounts
    \/ RowCountsSteps /\ Narrow'
    \/ AnswerSchemaOf(NarrowQuestions, {1}) /\ Narrow'
    \/ (AnswerGenerate \/ AnswerDryRun \/ AnswerExecute) /\ Narrow'
    \/ Finish
    \/ Switch

SpecConcurrent == InitConcurrent /\ [][NextConcurrent]_vars

(***************************************************************************)
(* Properties of execute (run_query) and of the validator.                 *)
(***************************************************************************)
Min(a, b) == IF a < b THEN a ELSE b

Done == pc = "done"

ExecuteDone == pc = "done" /\ call.name = "execute"

\* the trimmed, lower-cased text begins with "select"
BeginsWithSelect(sql) ==
    LET t == lower(strip(sql))
    IN  Len(t) >= 6 /\ SubSeq(t, 1, 6) = <<"s", "e", "l", "e", "c", "t">>

\* the text holds one of the three scope-reference patterns of the configured scope
HasScopeReference(sql) ==
    \/ Contains(sql, <<"U+0060">> \o scope.project \o <<".">> \o scope.dataset \o <<".">>)
    \/ Contains(lower(sql),
                <<"U+0060">> \o lower(scope.project) \o <<".">> \o lower(scope.dataset)
                \o <<"U+0060", ".", "i", "n", "f", "o", "r", "m", "a", "t", "i", "o", "n", "_", "s", "c", "h", "e", "m", "a">>)
    \/ Contains(sql, <<"U+0060">> \o scope.project \o <<".">> \o scope.dataset \o <<"U+0060", ".">>)

\* the validator rejects the text
Rejected(sql) ==
    \/ ~BeginsWithSelect(sql)
    \/ ~scope.allow_cross_dataset /\ ~HasScopeReference(sql)

ReturnedFailure ==
    /\ ret.kind = "return"
    /\ ret.value.status = "error"
    /\ HasKey(ret.value, "error_message")

\* C1: every text the validator rejects makes execute return a Failure value carrying
\* a message and the echoed sql; the validation failure is never raised to the caller.
\* (run_query calls _ensure_select and _enforce_dataset before its try block.)
C1_ValidationFailureReturned ==
    (ExecuteDone /\ Rejected(call.sql))
        => (ReturnedFailure /\ HasKey(ret.value, "sql") /\ ret.value.sql = call.sql)

\* C2: a text whose trimmed, lower-cased form does not begin with "select" (the empty
\* text included) is rejected as InvalidQueryShape and no job is submitted for it.
C2_NonSelectRejected ==
    (ExecuteDone /\ ~BeginsWithSelect(call.sql))
        => /\ ret.kind = "raise"
           /\ ret.exc.kind = "InvalidQueryShape"
           /\ remote = <<>>

\* a text with "select" inside but not in front, and the empty text, were rejected
C2_Witness ==
    /\ ExecuteDone
    /\ ~BeginsWithSelect(call.sql)
    /\ Contains(lower(call.sql), <<"s", "e", "l", "e", "c", "t">>)
    /\ HasScopeReference(call.sql)
    /\ ret.kind = "raise"

\* C3: for a text beginning with "select": with allow_cross_dataset false and none of
\* the three scope-reference patterns, validation fails with OutOfScope and no job is
\* submitted; with allow_cross_dataset true the text passes validation whatever it
\* references (the job is submitted).
C3_ScopeCheck ==
    (ExecuteDone /\ BeginsWithSelect(call.sql))
        => /\ (~scope.allow_cross_dataset /\ ~HasScopeReference(call.sql))
                => (ret.kind = "raise" /\ ret.exc.kind = "OutOfScope" /\ remote = <<>>)
           /\ scope.allow_cross_dataset
                => (ret.kind = "return" /\ Len(remote) = 1 /\ remote[1].sql = call.sql)

\* with the allowance, a select text without any scope reference was submitted
C3_Witness ==
    /\ ExecuteDone
    /\ BeginsWithSelect(call.sql)
    /\ scope.allow_cross_dataset
    /\ ~HasScopeReference(call.sql)
    /\ Len(remote) = 1

\* without the allowance, a select text without scope reference was rejected
C3_WitnessOutOfScope ==
    /\ ExecuteDone
    /\ BeginsWithSelect(call.sql)
    /\ ~scope.allow_cross_dataset
    /\ ~HasScopeReference(call.sql)
    /\ ret.kind = "raise"

\* the error the warehouse answered to the job of this call, None when it did not fail
WarehouseError ==
    IF call.resp.submit_error # None THEN call.resp.submit_error
    ELSE IF ~call.dry_run THEN call.resp.result_error
    ELSE None

\* C4: for a text that passes validation, when the submission or the result fetch
\* fails, execute returns Failure{message = the error, echoed_sql = the text}; nothing
\* is raised, for dry runs and real executions alike.
C4_ExecutionErrorReturned ==
    (ExecuteDone /\ ~Rejected(call.sql) /\ WarehouseError # None)
        => /\ ret.kind = "return"
           /\ ret.value = [status |-> "error", error_message |-> WarehouseError,
                           sql |-> call.sql]

\* a real execution whose result fetch failed returned the Failure
C4_Witness ==
    /\ ExecuteDone
    /\ ~call.dry_run
    /\ call.resp.submit_error = None
    /\ call.resp.result_error = "e2"
    /\ ret.kind = "return"
    /\ ret.value.error_message = "e2"

\* a dry run whose submission failed returned the Failure
C4_WitnessDryRun ==
    /\ ExecuteDone
    /\ call.dry_run
    /\ call.resp.submit_error = "e1"
    /\ ret.kind = "return"
    /\ ret.value.error_message = "e1"

\* a successful real execution of execute or of the standalone tool
RealSuccess ==
    /\ pc = "done"
    /\ call.name \in {"execute", "query_bigquery"}
    /\ ~call.dry_run
    /\ ret.kind = "return"
    /\ ret.value.status = "success"

\* C5: a successful real execution with maximum_rows = k > 0 on a result of n rows
\* returns exactly the first min(k, n) rows in the original order, and the reported
\* row count is the length of the returned sequence.
C5_RowTruncation ==
    (RealSuccess /\ call.maximum_rows > 0)
        => LET n == Len(call.resp.rows)
               m == Min(call.maximum_rows, n)
           IN  /\ Len(ret.value.rows) = m
               /\ \A i \in 1..m : ret.value.rows[i] = call.resp.rows[i]
               /\ ret.value.num_rows = Len(ret.value.rows)

\* a result longer than the cap was cut to the cap, and its rows differ from one another
C5_Witness ==
    /\ RealSuccess
    /\ call.name = "execute"
    /\ call.maximum_rows > 0
    /\ Len(call.resp.rows) > call.maximum_rows
    /\ Len(ret.value.rows) = call.maximum_rows
    /\ call.resp.rows[1] # call.resp.rows[2]

\* the same for the standalone tool
C5_WitnessTool ==
    /\ RealSuccess
    /\ call.name = "query_bigquery"
    /\ call.maximum_rows > 0
    /\ Len(call.resp.rows) > call.maximum_rows
    /\ Len(ret.value.rows) = call.maximum_rows

\* C6: in a dry run no result rows are fetched or materialized: job.result() is never
\* called, a successful dry run returns bytes_processed and the echoed sql and no
\* rows, and the job is configured with result caching disabled.
C6_DryRunNoRows ==
    (ExecuteDone /\ call.dry_run)
        => /\ \A i \in 1..Len(remote) :
                /\ ~remote[i].fetched
                /\ remote[i].job_config.dry_run = "True"
                /\ remote[i].job_config.use_query_cache = "False"
           /\ (ret.kind = "return" /\ ret.value.status = "success")
                => /\ ~HasKey(ret.value, "rows")
                   /\ ret.value.total_bytes_processed = call.resp.bytes
                   /\ ret.value.sql = call.sql

\* a dry run succeeded with a byte estimate
C6_Witness ==
    /\ ExecuteDone
    /\ call.dry_run
    /\ Len(remote) = 1
    /\ ret.kind = "return"
    /\ ret.value.status = "success"
    /\ ret.value.total_bytes_processed = 7

(***************************************************************************)
(* Properties of rowCounts (table_row_counts).  They are stated on the     *)
(* jobs the warehouse received, which are recognised by their text.        *)
(***************************************************************************)
InRowCounts ==
    \/ call.name = "rowCounts"
    \/ call.name = "answer" /\ call.question # <<>>
                            /\ Intent(call.question) = "table_row_counts"

IsStorageJob(j) == Contains(j.sql, <<"I", "N", "F", "O", "R", "M", "A", "T", "I", "O", "N", "_", "S", "C", "H", "E", "M", "A", ".", "T", "A", "B", "L", "E", "_", "S", "T", "O", "R", "A", "G", "E">>)

IsPartitionsJob(j) == Contains(j.sql, <<"I", "N", "F", "O", "R", "M", "A", "T", "I", "O", "N", "_", "S", "C", "H", "E", "M", "A", ".", "P", "A", "R", "T", "I", "T", "I", "O", "N", "S">>)

IsListingJob(j) == Contains(j.sql, <<"S", "E", "L", "E", "C", "T", " ", "t", "a", "b", "l", "e", "_", "n", "a", "m", "e", " ", "F", "R", "O", "M">>)
                   /\ Contains(j.sql, <<"I", "N", "F", "O", "R", "M", "A", "T", "I", "O", "N", "_", "S", "C", "H", "E", "M", "A", ".", "T", "A", "B", "L", "E", "S", " ", "O", "R", "D", "E", "R", " ", "B", "Y">>)

IsCountJob(j) == Contains(j.sql, <<"S", "E", "L", "E", "C", "T", " ", "C", "O", "U", "N", "T", "(", "*", ")", " ", "A", "S", " ", "r", "o", "w", "_", "c", "o", "u", "n", "t", " ", "F", "R", "O", "M">>)

JobOk(j) == j.submit_error = None /\ j.fetched /\ j.result_error = None

JobError(j) == IF j.submit_error # None THEN j.submit_error ELSE j.result_error

JobNonEmpty(j) == JobOk(j) /\ j.rows # <<>>

\* C7: if the TABLE_STORAGE query succeeds with at least one row its result is returned
\* and no other query is issued; if it succeeds with zero rows or fails, the PARTITIONS
\* query is issued next; the listing and the per-table COUNT(*) are issued only after
\* the PARTITIONS query also failed or returned zero rows.
C7_FallbackOrdering ==
    InRowCounts =>
        LET n == Len(remote)
        IN  /\ n >= 1 => IsStorageJob(remote[1])
            /\ (n >= 1 /\ JobNonEmpty(remote[1]))
                 => /\ n = 1
                    /\ pc = "done"
                    /\ ret.kind = "return"
                    /\ ret.value.status = "success"
                    /\ ret.value.rows = remote[1].rows
            /\ (n >= 1 /\ ~JobNonEmpty(remote[1]))
                 => /\ n = 1 => pc = "rc2"
                    /\ n >= 2 => IsPartitionsJob(remote[2])
            /\ (n >= 2 /\ JobNonEmpty(remote[2]))
                 => /\ n = 2
                    /\ pc = "done"
                    /\ ret.kind = "return"
                    /\ ret.value.rows = remote[2].rows
            /\ (n >= 2 /\ ~JobNonEmpty(remote[2]))
                 => /\ n = 2 => pc = "rc3"
                    /\ n >= 3 => IsListingJob(remote[3])
            /\ \A i \in 1..n :
                 (IsListingJob(remote[i]) \/ IsCountJob(remote[i]))
                    => /\ i >= 3
                       /\ ~JobNonEmpty(remote[1])
                       /\ IsPartitionsJob(remote[2])
                       /\ ~JobNonEmpty(remote[2])

\* TABLE_STORAGE succeeded with zero rows, PARTITIONS was tried, a COUNT(*) was issued
C7_Witness ==
    /\ InRowCounts
    /\ Len(remote) >= 4
    /\ JobOk(remote[1])
    /\ remote[1].rows = <<>>
    /\ IsPartitionsJob(remote[2])
    /\ IsCountJob(remote[4])

\* TABLE_STORAGE succeeded with rows and was returned
C7_WitnessAccepted ==
    /\ InRowCounts
    /\ Len(remote) = 1
    /\ JobNonEmpty(remote[1])
    /\ pc = "done"

\* the audit trail att has one entry per job issued, in order, with its status and error
AuditMatches(att) ==
    /\ Len(att) = Len(remote)
    /\ \A i \in 1..Min(Len(att), Len(remote)) :
         /\ att[i].status = (IF JobOk(remote[i]) THEN "success" ELSE "error")
         /\ att[i].error = JobError(remote[i])
         /\ IF IsListingJob(remote[i])
            THEN HasKey(att[i], "step") /\ att[i].step = "list_tables"
            ELSE HasKey(att[i], "sql") /\ att[i].sql = remote[i].sql

\* C8: however rowCounts returns, the audit trail of the returned report has exactly
\* one entry for every query issued during the call, in the order issued, each with
\* the status and error message of that query.
C8_AuditTrailComplete ==
    InRowCounts =>
        /\ AuditMatches(attempts)
        /\ pc = "done"
             => /\ ret.kind = "return"
                /\ HasKey(ret.value, "debug")
                /\ AuditMatches(ret.value.debug.attempts)

\* a call that went through all strategies returned a trail with failures and successes
C8_Witness ==
    /\ InRowCounts
    /\ pc = "done"
    /\ ret.kind = "return"
    /\ ret.value.status = "success"
    /\ Len(remote) = 5
    /\ ~JobOk(remote[1])
    /\ JobOk(remote[4])
    /\ ~JobOk(remote[5])
    /\ Len(ret.value.debug.attempts) = 5

\* C9: when strategies 1 and 2 were not accepted and the listing fails with message m,
\* rowCounts returns Failure with message m (not the error of strategy 1 or 2) and no
\* per-table COUNT(*) is issued.
C9_ListingErrorSurfaced ==
    (InRowCounts /\ Len(remote) >= 3 /\ IsListingJob(remote[3]) /\ ~JobOk(remote[3]))
        => /\ Len(remote) = 3
           /\ pc = "done"
           /\ ret.kind = "return"
           /\ ret.value.status = "error"
           /\ ret.value.error_message = JobError(remote[3])

\* the listing failed with a message other than the one strategy 1 failed with
C9_Witness ==
    /\ InRowCounts
    /\ Len(remote) = 3
    /\ ~JobOk(remote[1])
    /\ ~JobOk(remote[3])
    /\ JobError(remote[1]) # JobError(remote[3])
    /\ pc = "done"
    /\ ret.value.error_message = JobError(remote[3])

(***************************************************************************)
(* Properties of answer (nl2sql_and_execute).                              *)
(***************************************************************************)
HasCountKeyword(q) ==
    \/ Contains(q, <<"h", "o", "w", " ", "m", "a", "n", "y", " ", "t", "a", "b", "l", "e", "s">>)
    \/ Contains(q, <<"c", "o", "u", "n", "t", " ", "t", "a", "b", "l", "e", "s">>)
    \/ Contains(q, <<"U+591A", "U+5C11", "U+8868">>)
    \/ Contains(q, <<"U+6709", "U+591A", "U+5C11", "U+8868">>)

HasListKeyword(q) ==
    \/ Contains(q, <<"l", "i", "s", "t", " ", "t", "a", "b", "l", "e", "s">>)
    \/ Contains(q, <<"t", "a", "b", "l", "e", "s", " ", "l", "i", "s", "t">>)
    \/ Contains(q, <<"U+6709", "U+54EA", "U+4E9B", "U+8868">>)
    \/ Contains(q, <<"U+5217", "U+51FA", "U+8868">>)

HasPerTableKeyword(q) ==
    \/ Contains(q, <<"e", "a", "c", "h", " ", "t", "a", "b", "l", "e">>)
    \/ Contains(q, <<"p", "e", "r", " ", "t", "a", "b", "l", "e">>)
    \/ Contains(q, <<"U+6BCF", "U+5F20", "U+8868">>)
    \/ Contains(q, <<"U+6BCF", "U+4E2A", "U+8868">>)

IsTableCountJob(j) ==
    /\ Contains(j.sql, <<"S", "E", "L", "E", "C", "T", " ", "C", "O", "U", "N", "T", "(", "*", ")", " ", "A", "S", " ", "t", "a", "b", "l", "e", "_", "c", "o", "u", "n", "t", " ", "F", "R", "O", "M">>)
    /\ Contains(j.sql, <<"I", "N", "F", "O", "R", "M", "A", "T", "I", "O", "N", "_", "S", "C", "H", "E", "M", "A", ".", "T", "A", "B", "L", "E", "S">>)

\* neither the generator nor the sanitizer was invoked, and no dry run was submitted
NoAdHocStep ==
    /\ collab = <<>>
    /\ \A i \in 1..Len(remote) : remote[i].job_config.dry_run # "True"

\* the call returned at once, after exactly one job, with the given intent tag
ReturnedAtOnce(tag) ==
    /\ pc = "done"
    /\ ret.kind = "return"
    /\ HasKey(ret.value, "debug")
    /\ ret.value.debug.intent = tag
    /\ Len(remote) = 1

\* C10: a non-empty question is classified on its trimmed lower-cased text in the
\* order count, list, per-table: a count keyword gives countTables / count_tables even
\* beside list or per-table keywords, otherwise a list keyword gives listTables /
\* list_tables, otherwise a per-table keyword gives rowCounts / table_row_counts.  On a
\* shortcut the generator, the sanitizer and the dry run are never invoked, and count
\* and list issue exactly one query.
C10_IntentShortcuts ==
    (call.name = "answer" /\ call.question # <<>>)
        => LET q == lower(strip(call.question))
           IN  IF HasCountKeyword(q)
               THEN ReturnedAtOnce("count_tables") /\ IsTableCountJob(remote[1])
                    /\ NoAdHocStep
               ELSE IF HasListKeyword(q)
               THEN ReturnedAtOnce("list_tables") /\ IsListingJob(remote[1])
                    /\ NoAdHocStep
               ELSE IF HasPerTableKeyword(q)
               THEN /\ NoAdHocStep
                    /\ pc \in {"rc1", "rc2", "rc3", "rc_loop", "done"}
                    /\ Len(remote) >= 1 => IsStorageJob(remote[1])
                    /\ pc = "done"
                         => /\ ret.kind = "return"
                            /\ ret.value.debug.intent = "table_row_counts"
               ELSE pc \in {"generate", "dry", "exec", "done"}

\* a question with a list keyword before a count keyword was answered by countTables
C10_Witness ==
    /\ call.name = "answer"
    /\ Contains(lower(strip(call.question)), <<"h", "o", "w", " ", "m", "a", "n", "y", " ", "t", "a", "b", "l", "e", "s">>)
    /\ Contains(lower(strip(call.question)), <<"l", "i", "s", "t", " ", "t", "a", "b", "l", "e", "s">>)
    /\ pc = "done"
    /\ ret.value.debug.intent = "count_tables"
    /\ ret.value.status = "success"

\* a question in the other language took the per-table shortcut
C10_WitnessPerTable ==
    /\ call.name = "answer"
    /\ Contains(call.question, <<"U+6BCF", "U+5F20", "U+8868">>)
    /\ pc = "done"
    /\ ret.value.debug.intent = "table_row_counts"

\* on the ad-hoc path the generator, the sanitizer and the dry run are invoked
C10_WitnessAdHoc ==
    /\ call.name = "answer"
    /\ collab # <<>>
    /\ Len(remote) >= 2
    /\ remote[2].job_config.dry_run = "True"

\* the call is on the ad-hoc path of answer
AdHoc ==
    /\ call.name = "answer"
    /\ call.question # <<>>
    /\ Intent(call.question) = "nl2sql"

IsDryJob(j) == j.job_config.dry_run = "True"

\* C11: on the ad-hoc path a real execution of the generated query is submitted only
\* after a dry run of the identical sanitized text returned success: a failed dry run
\* makes answer return Failure with the dry run's message and no real execution; a
\* successful dry run, with any byte estimate, 0 included, is followed by the real
\* execution under the caller-supplied row cap.
C11_DryRunGate ==
    AdHoc =>
        LET n == Len(remote)
        IN  /\ n <= 3
            /\ \A i \in 1..n : IsDryJob(remote[i]) <=> i = 2
            /\ n >= 2 => remote[2].sql = loc.sanitized
            /\ n >= 3
                 => /\ remote[2].submit_error = None
                    /\ remote[3].sql = remote[2].sql
                    /\ pc = "done"
            /\ (n = 2 /\ remote[2].submit_error # None)
                 => /\ pc = "done"
                    /\ ret.kind = "return"
                    /\ ret.value.status = "error"
                    /\ ret.value.error_message = remote[2].submit_error
            /\ (n = 2 /\ remote[2].submit_error = None) => pc = "exec"
            /\ (n = 3 /\ JobOk(remote[3]))
                 => /\ ret.kind = "return"
                    /\ ret.value.status = "success"
                    /\ ret.value.rows =
                         IF call.maximum_rows > 0
                         THEN SubSeq(remote[3].rows, 1,
                                     Min(call.maximum_rows, Len(remote[3].rows)))
                         ELSE remote[3].rows

\* a dry run that estimated 0 bytes was followed by a real execution cut to the cap
C11_Witness ==
    /\ AdHoc
    /\ Len(remote) = 3
    /\ loc.dry.total_bytes_processed = 0
    /\ JobOk(remote[3])
    /\ Len(remote[3].rows) > call.maximum_rows
    /\ Len(ret.value.rows) = call.maximum_rows

\* a dry run failed and nothing was executed
C11_WitnessFailed ==
    /\ AdHoc
    /\ Len(remote) = 2
    /\ remote[2].submit_error = "e2"
    /\ pc = "done"

\* the generator has been asked and its text handed to the sanitizer
Generated == call.name = "answer" /\ HasKey(loc, "generated")

\* the sanitizer accepted the generated text
Sanitized == call.name = "answer" /\ HasKey(loc, "sanitized")

\* C12: a select text that already contains the fully-qualified dataset prefix comes
\* back from the sanitizer unchanged, and sanitizing the sanitizer's output again
\* gives that same output.
C12_SanitizerIdempotent ==
    /\ (Generated /\ BeginsWithSelect(loc.generated)
                  /\ Contains(loc.generated, hint_table(scope)))
         => /\ Sanitized
            /\ loc.sanitized = loc.generated
    /\ Sanitized
         => sanitize_sql(loc.sanitized, scope) = [exc |-> NoExc, sql |-> loc.sanitized]

\* an already qualified text with a table keyword went through the sanitizer
C12_Witness ==
    /\ Sanitized
    /\ loc.generated = <<"s", "e", "l", "e", "c", "t", " ", "1", " ", "f", "r", "o", "m", " ", "U+0060", "p", ".", "D", ".", "t", "U+0060", " ", "j", "o", "i", "n", " ", "u">>
    /\ loc.sanitized = loc.generated

\* a text the sanitizer rewrote, which it leaves alone the second time
C12_WitnessRewritten ==
    /\ Sanitized
    /\ loc.sanitized # loc.generated
    /\ sanitize_sql(loc.sanitized, scope).sql = loc.sanitized

\* C13: with project p, dataset d and no cross-dataset allowance the sanitizer turns
\* "SELECT * FROM orders LIMIT 10" into exactly "SELECT * FROM `p.d.orders` LIMIT 10",
\* closing backtick included, and that output passes scope validation.
\* (The replacement inserts only the opening backtick and the prefix.)
C13_OrdersQualified ==
    (/\ Generated
     /\ loc.generated = <<"S", "E", "L", "E", "C", "T", " ", "*", " ", "F", "R", "O", "M", " ", "o", "r", "d", "e", "r", "s", " ", "L", "I", "M", "I", "T", " ", "1", "0">>
     /\ scope = [project |-> <<"p">>, dataset |-> <<"d">>, allow_cross_dataset |-> FALSE])
        => /\ Sanitized
           /\ loc.sanitized = <<"S", "E", "L", "E", "C", "T", " ", "*", " ", "F", "R", "O", "M", " ", "U+0060", "p", ".", "d", ".", "o", "r", "d", "e", "r", "s", "U+0060", " ", "L", "I", "M", "I", "T", " ", "1", "0">>
           /\ ~Rejected(loc.sanitized)

\* C15: when the sanitizer rejects the generated text, answer returns Failure carrying
\* the generated text and the debug context gathered so far (intent tag and schema
\* preview), and neither the dry run nor the real execution is submitted.
C15_SanitizeFailureReturned ==
    (Generated /\ sanitize_sql(loc.generated, scope).exc # NoExc)
        => /\ pc = "done"
           /\ ReturnedFailure
           /\ ret.value.error_message
                = SanitizeFailedMsg(sanitize_sql(loc.generated, scope).exc)
           /\ ret.value.sql = loc.generated
           /\ ret.value.debug = [intent |-> "nl2sql",
                                 schema_preview |-> loc.schema_preview]
           /\ \A i \in 1..Len(remote) :
                /\ ~IsDryJob(remote[i])
                /\ remote[i].sql \in {TablesAndColumnsSql(scope), SchemaSummarySql(scope)}

\* a text without any table keyword was refused although it begins with select
C15_Witness ==
    /\ Generated
    /\ loc.generated = <<"s", "e", "l", "e", "c", "t", " ", "a", " ", "F", "r", "o", "m", " ", "t">>
    /\ pc = "done"
    /\ ret.value.sql = loc.generated
    /\ ret.value.debug.schema_preview # <<>>

\* a reply that is no query was refused
C15_WitnessNotSelect ==
    /\ Generated
    /\ sanitize_sql(loc.generated, scope).exc = NotSelect
    /\ pc = "done"

\* C19: every execute call submits at most one remote job: exactly one when validation
\* passes and none when it fails; a failed job is never submitted again.
C19_AtMostOneJob ==
    ExecuteDone =>
        /\ Len(remote) = IF Rejected(call.sql) THEN 0 ELSE 1
        /\ Len(remote) = 1
             => /\ remote[1].sql = call.sql
                /\ IsDryJob(remote[1]) <=> call.dry_run

\* a job whose submission failed was the only job of the call
C19_Witness ==
    /\ ExecuteDone
    /\ Len(remote) = 1
    /\ remote[1].submit_error # None
    /\ ret.kind = "return"
    /\ ret.value.status = "error"

\* a job whose result could not be fetched was the only job of the call
C19_WitnessFetch ==
    /\ ExecuteDone
    /\ Len(remote) = 1
    /\ remote[1].result_error # None

\* C20: the sanitizer rewrites every bare " from " and " join " whatever the letter
\* case, mixed case such as " From " included, so a text whose only table keyword is
\* mixed-case comes out qualified instead of being rejected.
\* (Only the all-lower and the all-upper spellings are replaced.)
C20_AnyCaseQualified ==
    (/\ Generated
     /\ BeginsWithSelect(loc.generated)
     /\ \/ Contains(lower(loc.generated), <<" ", "f", "r", "o", "m", " ">>)
        \/ Contains(lower(loc.generated), <<" ", "j", "o", "i", "n", " ">>))
        => /\ Sanitized
           /\ Contains(loc.sanitized, hint_table(scope))

InAnswer == call.name = "answer"

C17_WitnessNoQuery ==
    /\ AdHoc
    /\ pc = "done"
    /\ loc.generated = <<"I", " ", "c", "a", "n", "n", "o", "t", " ", "a", "n", "s", "w", "e", "r", " ", "t", "h", "a", "t">>
    /\ ret.kind = "return"

\* a shortcut whose every query failed returned a failure
C17_WitnessShortcut ==
    /\ InAnswer
    /\ ~AdHoc
    /\ pc = "done"
    /\ Len(remote) >= 3
    /\ ret.kind = "return"
    /\ ret.value.status = "error"

TablesAndColumnsDone == pc = "done" /\ call.name = "tables_and_columns"

\* the columns of table t among the rows the warehouse returned, in result order
RECURSIVE ColumnsInResult(_, _)
ColumnsInResult(rows, t) ==
    IF rows = <<>> THEN <<>>
    ELSE (IF Head(rows).table_name = t
          THEN <<[column_name |-> Head(rows).column_name,
                  data_type   |-> Head(rows).data_type]>>
          ELSE <<>>) \o ColumnsInResult(Tail(rows), t)

\* C16: the mapping returned by tablesAndColumns has at most maxTables tables, and
\* every table has at most maxColsPerTable columns, the first ones of that table in
\* result order.
\* (The break that should enforce the table limit tests `t not in out` right after
\* out.setdefault(t, []), so it never fires.)
C16_Caps ==
    (TablesAndColumnsDone /\ ret.kind = "return")
        => /\ Len(ret.value) <= call.max_tables
           /\ \A i \in 1..Len(ret.value) :
                LET all == ColumnsInResult(remote[1].rows, ret.value[i].table)
                IN  ret.value[i].cols = SubSeq(all, 1, Min(call.max_cols, Len(all)))

SafeExecDone == pc = "done" /\ call.name = "safe_exec"

\* exec was reached and this is what it did
Executed == SafeExecDone /\ collab # <<>>

\* C14: AnalysisSandbox.run never propagates an exception raised while executing the
\* code: it returns Failure whose error is the exception's message; and code that
\* completes without binding `result` gives Success with a null result.
\* (The handler is `except Exception`: SystemExit and the other classes outside
\* Exception pass through it.)
C14_SandboxNeverPropagates ==
    Executed =>
        LET out == collab[1].out
        IN  /\ out.exc # NoExc
                 => /\ ret.kind = "return"
                    /\ ret.value.status = "error"
                    /\ ret.value.error_message = out.exc.msg
            /\ (out.exc = NoExc /\ ~HasKey(out.locals, "result"))
                 => /\ ret.kind = "return"
                    /\ ret.value.status = "success"
                    /\ ret.value.result = None

\* execute alone: the outcome is run_query's on the caller's own text, cap, flag and
\* the warehouse's response to this call
ExecuteAlone ==
    ExecuteDone =>
        LET r == run_query(call.sql, call.maximum_rows, call.dry_run, call.resp, scope)
        IN  /\ ret = Outcome(r)
            /\ remote = r.remote

CountedJob(j) == IsCountJob(j) /\ JobNonEmpty(j)

\* rowCounts alone: the audit trail is that of the call's own jobs, and the row list
\* of the report has the counts its own COUNT(*) jobs returned, in order
RowCountsAlone ==
    InRowCounts =>
        /\ AuditMatches(attempts)
        /\ (pc = "done" /\ ret.kind = "return")
             => /\ HasKey(ret.value, "debug")
                /\ AuditMatches(ret.value.debug.attempts)
                /\ (ret.value.status = "success" /\ Len(remote) >= 3)
                     => LET counted == SelectSeq(remote, CountedJob)
                        IN  /\ Len(ret.value.rows) = Len(counted)
                            /\ \A i \in 1..Len(counted) :
                                 ret.value.rows[i].row_count = counted[i].rows[1].row_count

\* answer alone: the debug bundle holds the text generated and sanitized in this call
AnswerAlone ==
    (AdHoc /\ pc = "done" /\ ret.kind = "return" /\ Len(remote) = 3)
        => /\ ret.value.debug.generated_sql = collab[2].sql
           /\ ret.value.debug.sanitized_sql = remote[3].sql
           /\ ret.value.debug.schema_preview = SchemaPreview(collab[1].schema)
           /\ ret.value.sql = remote[3].sql

\* C18: when two callers run core operations concurrently, under any interleaving of
\* their remote-call steps, each call returns what it returns alone on the same
\* warehouse responses: its audit trail, debug bundle and row list are built from its
\* own jobs only, a step of one caller leaves the suspended call of the other as it
\* was, and no step modifies the dataset scope.
C18_NoInterference ==
    /\ [](ExecuteAlone /\ RowCountsAlone /\ AnswerAlone)
    /\ [][/\ scope' = scope
          /\ active' = active => other' = other]_vars

\* caller 1 got its report while caller 2 was inside the loop of its own rowCounts
C18_Witness ==
    /\ active = 1
    /\ call.name = "rowCounts"
    /\ pc = "done"
    /\ Len(attempts) = 4
    /\ other.call.name = "rowCounts"
    /\ other.pc = "rc_loop"
    /\ other.attempts # <<>>
    /\ other.attempts # SubSeq(attempts, 1, 3)

\* caller 2 finished an ad-hoc answer while caller 1 was suspended before its dry run
C18_WitnessAnswer ==
    /\ active = 2
    /\ AdHoc
    /\ pc = "done"
    /\ Len(remote) = 3
    /\ other.call.name = "answer"
    /\ other.pc = "dry"

\* the ad-hoc path went through the real execution step and answer returned
AfterExecution == AdHoc /\ pc = "done" /\ Len(remote) = 3 /\ ret.kind = "return"

\* the lines of a schema context: the pieces between line feeds, none for the empty text
LinesOf(text) == IF text = <<>> THEN <<>> ELSE split(text, <<"\n">>)

\* C21: every result answer returns from the ad-hoc path after the real execution,
\* succeeded or failed, carries a debug bundle with the five fields intent "nl2sql",
\* schema preview, generated text, sanitized text and dry-run byte estimate; the
\* preview is the first min(25, n) lines of the n-line schema context, in order.
C21_DebugBundle ==
    AfterExecution =>
        /\ HasKey(ret.value, "debug")
        /\ {"intent", "schema_preview", "generated_sql", "sanitized_sql", "dry_run_bytes"}
             \subseteq DOMAIN ret.value.debug
        /\ ret.value.debug.intent = "nl2sql"
        /\ ret.value.debug.generated_sql = collab[2].sql
        /\ ret.value.debug.sanitized_sql = remote[3].sql
        /\ ret.value.debug.dry_run_bytes = loc.dry.total_bytes_processed
        /\ LET lines == LinesOf(collab[1].schema)
           IN  ret.value.debug.schema_preview
                 = join(<<"\n">>, SubSeq(lines, 1, Min(25, Len(lines))))

\* a failed execution returned the bundle, with a preview cut to 25 of 26 lines
C21_Witness ==
    /\ AfterExecution
    /\ ret.value.status = "error"
    /\ Len(LinesOf(collab[1].schema)) = 26
    /\ Len(LinesOf(ret.value.debug.schema_preview)) = 25
    /\ ret.value.debug.dry_run_bytes = 7

\* a successful execution returned the bundle, the whole schema being its preview
C21_WitnessSuccess ==
    /\ AfterExecution
    /\ ret.value.status = "success"
    /\ Len(LinesOf(collab[1].schema)) = 2
    /\ ret.value.debug.schema_preview = collab[1].schema
    /\ ret.value.debug.generated_sql # ret.value.debug.sanitized_sql

Fence == <<"U+0060", "U+0060", "U+0060">>

\* the pieces of a reply cut at the fences: the even ones lie inside a fence
PiecesOf(reply) == split(reply, Fence)

\* piece i lies between an opening fence and its closing fence and contains "select"
FencedSelect(reply, i) ==
    /\ i \in 1..(Len(PiecesOf(reply)) - 1)
    /\ i % 2 = 0
    /\ Contains(lower(PiecesOf(reply)[i]), <<"s", "e", "l", "e", "c", "t">>)

\* C22: from a generator reply with fenced blocks, the candidate query is the first
\* fenced segment that contains "select"; text outside the fences is never chosen
\* when such a segment exists.
\* (The loop runs over every piece of text.split of the fence, prose included.)
C22_FirstFencedSegment ==
    (/\ Generated
     /\ collab[1].reply # NoReply
     /\ \E i \in 1..Len(PiecesOf(collab[1].reply)) : FencedSelect(collab[1].reply, i))
        => LET reply == collab[1].reply
               first == CHOOSE i \in 1..Len(PiecesOf(reply)) :
                           /\ FencedSelect(reply, i)
                           /\ \A j \in 1..(i - 1) : ~FencedSelect(reply, j)
           IN  loc.generated = strip(PiecesOf(reply)[first])

\* the scope with the cross-dataset allowance off
Strict == [scope EXCEPT !.allow_cross_dataset = FALSE]

C25_WitnessUnchanged ==
    /\ AdHoc
    /\ ~scope.allow_cross_dataset
    /\ pc = "exec"
    /\ loc.sanitized = loc.generated
    /\ remote[2].sql = loc.sanitized

HasName(row) == "table_name" \in DOMAIN row /\ row.table_name # <<>>

\* the names of the listed tables, in listing order, rows without a name left out
ListedNames(listing) ==
    LET named == SelectSeq(listing, HasName)
    IN  [i \in 1..Len(named) |-> named[i].table_name]

\* the pairs (name, count) of the tables whose COUNT(*) job gave a row, in order
RECURSIVE CountedRows(_, _)
CountedRows(names, jobs) ==
    IF names = <<>> \/ jobs = <<>> THEN <<>>
    ELSE (IF JobNonEmpty(Head(jobs))
          THEN <<[table_name |-> Head(names), row_count |-> Head(jobs).rows[1].row_count]>>
          ELSE <<>>) \o CountedRows(Tail(names), Tail(jobs))

\* rowCounts is in strategy 3 and the listing returned at least one row
ListedSome == InRowCounts /\ Len(remote) >= 3 /\ JobNonEmpty(remote[3])

\* C26: when rowCounts reaches strategy 3 and the listing returns at least one row,
\* rowCounts returns Success; its rows are exactly the listed tables with a non-empty
\* name whose COUNT(*) succeeded with a row, in listing order, each with that count,
\* and num_rows is their number.  A failing count leaves its table out, so if every
\* count fails the result is Success with an empty row list.
C26_PerTableCounts ==
    ListedSome =>
        LET names == ListedNames(remote[3].rows)
            jobs  == SubSeq(remote, 4, Len(remote))
        IN  /\ Len(jobs) <= Len(names)
            /\ \A i \in 1..Len(jobs) : jobs[i].sql = sql3(scope, names[i])
            /\ pc = "done"
                 => /\ Len(jobs) = Len(names)
                    /\ ret.kind = "return"
                    /\ ret.value.status = "success"
                    /\ ret.value.rows = CountedRows(names, jobs)
                    /\ ret.value.num_rows = Len(CountedRows(names, jobs))

\* two tables were listed, the count of the first failed and the second was kept
C26_Witness ==
    /\ ListedSome
    /\ pc = "done"
    /\ Len(remote) = 5
    /\ ~JobOk(remote[4])
    /\ JobNonEmpty(remote[5])
    /\ Len(ret.value.rows) = 1
    /\ ret.value.rows[1].table_name = remote[3].rows[2].table_name

\* every count failed and the report is a success without rows
C26_WitnessAllFailed ==
    /\ ListedSome
    /\ pc = "done"
    /\ Len(remote) >= 4
    /\ \A i \in 4..Len(remote) : ~JobOk(remote[i])
    /\ ret.value.status = "success"
    /\ ret.value.rows = <<>>

\* C27: rowCounts returns Failure if and only if strategies 1 and 2 were both not
\* accepted and the listing failed or succeeded with zero rows; in the zero-rows case
\* the Failure carries the fixed message "Failed to list tables" although no query
\* reported an error.
C27_FailureOnlyFromListing ==
    InRowCounts =>
        /\ (pc = "done" /\ ret.kind = "return")
             => (ret.value.status = "error"
                   <=> /\ Len(remote) = 3
                       /\ ~JobNonEmpty(remote[1])
                       /\ ~JobNonEmpty(remote[2])
                       /\ ~JobNonEmpty(remote[3]))
        /\ (Len(remote) >= 3 /\ ~JobNonEmpty(remote[3]))
             => /\ pc = "done"
                /\ ReturnedFailure
                /\ ret.value.error_message =
                     IF JobOk(remote[3]) THEN "Failed to list tables"
                     ELSE JobError(remote[3])

\* all three queries succeeded without rows: a Failure with the fixed message
C27_Witness ==
    /\ InRowCounts
    /\ pc = "done"
    /\ Len(remote) = 3
    /\ \A i \in 1..3 : JobOk(remote[i]) /\ remote[i].rows = <<>>
    /\ ret.value.status = "error"
    /\ ret.value.error_message = "Failed to list tables"

\* the listing itself failed
C27_WitnessListingFailed ==
    /\ InRowCounts
    /\ pc = "done"
    /\ Len(remote) = 3
    /\ ~JobOk(remote[3])
    /\ ret.value.status = "error"

\* the generator was asked and was absent or raised
NoGenerator ==
    /\ call.name \in {"answer", "analysis"}
    /\ collab # <<>>
    /\ collab[1].ev = "generate"
    /\ collab[1].reply = NoReply

\* C23: when the generator is absent or raises, answer never returns a result that
\* reports the generation failure: it goes on with the fixed placeholder query, which
\* the sanitizer returns unchanged, and the placeholder is dry-run (an error result is
\* then the error of a submitted job); likewise the analysis goes on with the default
\* analysis code and hands it to the sandbox, whose result it returns.
C23_FallbackNotSurfaced ==
    /\ (NoGenerator /\ call.name = "answer")
         => /\ loc.generated = PlaceholderSql(scope)
            /\ Sanitized
            /\ loc.sanitized = PlaceholderSql(scope)
            /\ pc \in {"dry", "exec", "done"}
            /\ pc # "dry"
                 => /\ Len(remote) >= 2
                    /\ IsDryJob(remote[2])
                    /\ remote[2].sql = PlaceholderSql(scope)
            /\ pc = "done"
                 => /\ ret.kind = "return"
                    /\ ret.value.sql = PlaceholderSql(scope)
                    /\ ret.value.status = "error"
                         => ret.value.error_message = JobError(remote[Len(remote)])
    /\ (NoGenerator /\ call.name = "analysis")
         => /\ pc = "done"
            /\ collab[2].ev = "sandbox"
            /\ collab[2].code = DefaultCode
            /\ collab[2].data = loc.sample.rows
            /\ ret.kind = "return"
            /\ ret.value = safe_exec_python(DefaultCode, loc.sample.rows,
                               IF Len(collab) >= 3 THEN None
                               ELSE "No module named 'pandas'").value
            /\ Len(collab) >= 3
                 => /\ collab[3].ev = "exec"
                    /\ collab[3].code = DefaultCode

\* without a generator the placeholder was dry-run and executed, and answer succeeded
C23_Witness ==
    /\ NoGenerator
    /\ call.name = "answer"
    /\ pc = "done"
    /\ Len(remote) = 3
    /\ ret.value.status = "success"

\* without a generator the default analysis code was executed in the sandbox
C23_WitnessAnalysis ==
    /\ NoGenerator
    /\ call.name = "analysis"
    /\ pc = "done"
    /\ Len(collab) = 3
    /\ collab[3].code = DefaultCode
    /\ loc.sample.rows # <<>>

\* the stages of answer and of rowCounts, in the order of the code
Stage(p) ==
    CASE p = "idle"                 -> 0
      [] p \in {"rc1", "generate"}  -> 1
      [] p \in {"rc2", "dry"}       -> 2
      [] p \in {"rc3", "exec"}      -> 3
      [] p = "rc_loop"              -> 4
      [] p = "done"                 -> 5

\* a step enters a later stage, or visits the next listed table, or is the caller
\* taking the result; and it submits at most one job
Forward ==
    /\ \/ pc = "done" /\ pc' = "idle"
       \/ Stage(pc') > Stage(pc)
       \/ pc = "rc_loop" /\ pc' = "rc_loop" /\ todo' = Tail(todo)
    /\ pc' # "idle" => Len(remote') <= Len(remote) + 1

\* the jobs of the call so far: three at most on the ad-hoc path; for rowCounts the
\* three strategies and then one COUNT(*) per listed row, in listing order
JobBound ==
    /\ AdHoc => Len(remote) <= 3
    /\ InRowCounts
         => LET listing == IF Len(remote) >= 3 THEN remote[3].rows ELSE <<>>
                names   == ListedNames(listing)
                jobs    == SubSeq(remote, 4, Len(remote))
            IN  /\ Len(remote) <= 3 + Len(listing)
                /\ Len(jobs) <= Len(names)
                /\ \A i \in 1..Len(jobs) :
                     /\ IsCountJob(jobs[i])
                     /\ jobs[i].sql = sql3(scope, names[i])
                /\ \A i \in 1..Len(remote) : IsCountJob(remote[i]) => i >= 4

\* C24: every remote job completing or failing, every invocation of answer and of
\* rowCounts eventually returns and never goes back to an earlier stage; answer submits
\* at most 3 jobs on the ad-hoc path, rowCounts at most 3 + T where T is the number of
\* rows of the listing, one COUNT(*) at a time in listing order.
C24_Terminates ==
    /\ []JobBound
    /\ [][Forward]_vars
    /\ Running ~> (pc = "done" /\ ret.kind = "return")

\* rowCounts returned after the three strategies and one count for each of two tables
C24_Witness ==
    /\ InRowCounts
    /\ pc = "done"
    /\ Len(remote) = 5
    /\ Len(remote[3].rows) = 2
    /\ ret.kind = "return"

\* answer returned on the ad-hoc path after its three jobs
C24_WitnessAdHoc ==
    /\ AdHoc
    /\ pc = "done"
    /\ Len(remote) = 3
    /\ ret.kind = "return"

=============================================================================
